---- MODULE Spec2Model ----
(***************************************************************************)
(* Model of the cubitpy remote-object bridge: the host side                *)
(* (cubit_wrapper_host.py and cubit_wrapper3.py), the client dispatch      *)
(* script (cubit_wrapper2.py), the handle codec (cubit_wrapper_utility.py) *)
(* and the execnet channel that connects the two processes.               *)
(*                                                                         *)
(* Python values are tagged records [t |-> tag, v |-> payload]; a Python   *)
(* str is a sequence of one-character strings, so that the id prefix, the  *)
(* decimal formatting of id() and its parsing are computed, not assumed.   *)
(***************************************************************************)
EXTENDS Integers, Sequences, FiniteSets, TLC

(***************************************************************************)
(* Bounds of the model.                                                    *)
(***************************************************************************)
\* Number of send_and_return invocations made after the handshake.
MaxCalls == 3
\* Number of engine objects besides the cubit module itself.
MaxObjects == 2
\* The cubit module lives at address AddrBase + 1; with AddrBase = 8 the
\* addresses 9, 10, 11 need one and two decimal digits.
AddrBase == 8
\* Calls made on each of two connections opened side by side.
MaxSideCalls == 2
\* The longest sequence among the values handed to the codec functions.
MaxSeq == 2

(***************************************************************************)
(* Python values.                                                          *)
(***************************************************************************)
Str(s) == [t |-> "str", v |-> s]
IntV(n) == [t |-> "int", v |-> n]
FloatV(n) == [t |-> "float", v |-> n]
BoolV(b) == [t |-> "bool", v |-> b]
NoneV == [t |-> "none", v |-> 0]
ListV(s) == [t |-> "list", v |-> s]
TupleV(s) == [t |-> "tuple", v |-> s]
DictV(keys) == [t |-> "dict", v |-> keys]
\* An engine object: the address is what id() returns, the class decides
\* is_cubit_type and isinstance.
ObjV(addr, class) == [t |-> "obj", v |-> addr, class |-> class]
\* An outcome that is an exception instead of a value.
Exc(name) == [t |-> "exc", v |-> name]

IsStr(x) == x.t = "str"
IsList(x) == x.t = "list"
IsExc(x) == x.t = "exc"

(***************************************************************************)
(* String literals of the sources.                                         *)
(***************************************************************************)
S_prefix == <<"c", "p", "2", "t", "3", "i", "d", "_">>
S_init == <<"i", "n", "i", "t">>
S_isinstance == <<"i", "s", "i", "n", "s", "t", "a", "n", "c", "e">>
S_get_methods == <<"g", "e", "t", "_", "m", "e", "t", "h", "o", "d", "s">>
S_get_self_dir == <<"g", "e", "t", "_", "s", "e", "l", "f", "_", "d", "i", "r">>
S_iscallable == <<"i", "s", "c", "a", "l", "l", "a", "b", "l", "e">>
S_delete == <<"d", "e", "l", "e", "t", "e">>
S_EOF == <<"E", "O", "F">>
S_label == <<"l", "a", "b", "e", "l">>
S_method == <<"m">>
S_vertex == <<"c", "u", "b", "i", "t", "p", "y", "_", "v", "e", "r", "t", "e", "x">>
S_curve == <<"c", "u", "b", "i", "t", "p", "y", "_", "c", "u", "r", "v", "e">>
S_surface == <<"c", "u", "b", "i", "t", "p", "y", "_", "s", "u", "r", "f", "a", "c", "e">>
S_volume == <<"c", "u", "b", "i", "t", "p", "y", "_", "v", "o", "l", "u", "m", "e">>

(***************************************************************************)
(* str(int) and int(str) in base ten.                                      *)
(***************************************************************************)
DigitChars == <<"0", "1", "2", "3", "4", "5", "6", "7", "8", "9">>

RECURSIVE StrOfInt(_)
StrOfInt(n) ==
    IF n < 10 THEN <<DigitChars[n + 1]>>
    ELSE StrOfInt(n \div 10) \o <<DigitChars[(n % 10) + 1]>>

IsDigits(s) == Len(s) > 0 /\ \A i \in 1..Len(s) : \E d \in 1..10 : DigitChars[d] = s[i]

DigitOf(c) == (CHOOSE d \in 1..10 : DigitChars[d] = c) - 1

RECURSIVE IntOfStr(_)
IntOfStr(s) ==
    IF Len(s) = 1 THEN DigitOf(s[1])
    ELSE 10 * IntOfStr(SubSeq(s, 1, Len(s) - 1)) + DigitOf(s[Len(s)])

StartsWith(s, p) == Len(s) >= Len(p) /\ SubSeq(s, 1, Len(p)) = p

(***************************************************************************)
(* cubit_wrapper_utility.py                                                *)
(***************************************************************************)
\* id(obj): the address of a live object.
PyId(obj) == obj.v

\* str(obj) of an engine object: a text naming its class.
PyStr(obj) == <<"<", obj.class, ">">>

object_to_id(obj) == ListV(<<Str(S_prefix \o StrOfInt(PyId(obj))), Str(PyStr(obj))>>)

\* int(text[8:]) after the prefix test; int() raises ValueError on a text that
\* is not a decimal number.
IdOfText(s) ==
    IF StartsWith(s, S_prefix)
    THEN LET rest == SubSeq(s, Len(S_prefix) + 1, Len(s))
         IN  IF IsDigits(rest) THEN IntV(IntOfStr(rest)) ELSE Exc("ValueError")
    ELSE NoneV

\* Mutant: a text with the prefix is taken for an id as well.
cubit_item_to_id_of_text(x) ==
    IF IsStr(x) THEN IdOfText(x.v)
    ELSE IF ~IsList(x) THEN NoneV
    ELSE IF Len(x.v) = 0 THEN Exc("IndexError")
    ELSE IF ~IsStr(x.v[1]) THEN NoneV
    ELSE IdOfText(x.v[1].v)

cubit_item_to_id(x) ==
    IF ~IsList(x) THEN NoneV
    ELSE IF Len(x.v) = 0 THEN Exc("IndexError")
    ELSE IF ~IsStr(x.v[1]) THEN NoneV
    ELSE IdOfText(x.v[1].v)

\* The id of a text that carries the id prefix, None for anything else.
string_to_id(x) == IF IsStr(x) THEN IdOfText(x.v) ELSE NoneV

is_base_type(x) == x.t \in {"str", "int", "bool", "float", "none"}


(***************************************************************************)
(* The engine.  It is opaque: a method invocation returns any value of the *)
(* shapes below or raises.  Objects are named by their address; a new      *)
(* object gets an address no live object has.                              *)
(***************************************************************************)
RootAddr == AddrBase + 1
Addrs == RootAddr .. (RootAddr + MaxObjects)
CubitClasses == {"Body", "Vertex", "Curve", "Surface", "Volume"}
\* The cubit module itself, registered by init.
CubitModule == ObjV(RootAddr, "module")

\* cubit_wrapper2.is_cubit_type
is_cubit_type(x) == x.t = "obj" /\ x.class \in CubitClasses

\* Classes of the objects the engine creates in the model ("other" is a
\* foreign class the bridge does not know).
NewClasses == {"Volume", "Vertex", "other"}

\* Objects a call may hand out: the live ones and a new one at any free
\* address.
NewObjects(heap) ==
    {ObjV(a, c) : a \in Addrs \ {PyId(o) : o \in heap}, c \in NewClasses}
Returnable(heap) == heap \cup NewObjects(heap)

\* The two engine objects B and C of a nested result.
ObjectPairs(heap) ==
    {p \in Returnable(heap) \X Returnable(heap) :
        /\ is_cubit_type(p[1]) /\ is_cubit_type(p[2])
        /\ p[1].class = p[2].class
        /\ PyId(p[1]) < PyId(p[2])}

\* Return values of an engine method, each with the heap after the call.
EngineReturns(heap) ==
    {[ret |-> b, heap |-> heap] : b \in {IntV(1), NoneV, TupleV(<<>>), ListV(<<>>)}}
    \cup {[ret |-> o, heap |-> heap \cup {o}] : o \in Returnable(heap)}
    \cup {[ret |-> TupleV(<<IntV(1), o>>), heap |-> heap \cup {o}] : o \in Returnable(heap)}
    \cup {[ret |-> TupleV(<<IntV(1), TupleV(<<p[1], p[2]>>), Str(S_label)>>),
           heap |-> heap \cup {p[1], p[2]}] : p \in ObjectPairs(heap)}

\* What invoking the method does: a return value, or an exception.
EngineOutcomes(heap) ==
    EngineReturns(heap) \cup {[ret |-> Exc("RuntimeError"), heap |-> heap]}

(***************************************************************************)
(* cubit_wrapper2.py: the Object Registry and the dispatch of one message. *)
(***************************************************************************)
\* Mutant: every object is stored under the key of the cubit module.
RegistryKeyOfModule(obj) == RootAddr

\* The key an object is stored under.
RegistryKey(obj) == PyId(obj)

\* Mutant: the assignment starts a new dictionary.
RegisterAlone(reg, obj) == (RegistryKey(obj) :> obj)

\* cubit_objects[id(item)] = item
Register(reg, obj) == (RegistryKey(obj) :> obj) @@ reg

\* cubit_objects[key], KeyError for a key that is absent (None included).
Lookup(reg, key) ==
    IF key.t = "int" /\ key.v \in DOMAIN reg THEN reg[key.v] ELSE Exc("KeyError")

\* receive[i] (0-based i): IndexError past the end, TypeError on a value that
\* cannot be indexed.
Item(x, i) ==
    IF x.t \in {"list", "tuple", "str"}
    THEN IF i + 1 <= Len(x.v)
         THEN (IF IsStr(x) THEN Str(<<x.v[i + 1]>>) ELSE x.v[i + 1])
         ELSE Exc("IndexError")
    ELSE Exc("TypeError")

\* Lines 139-145: the argument list of the call, argument by argument.
RECURSIVE ResolveArgs(_, _, _, _)
ResolveArgs(items, i, reg, acc) ==
    IF i > Len(items) THEN ListV(acc)
    ELSE LET item_id == string_to_id(items[i])
         IN  IF IsExc(item_id) THEN item_id
             ELSE IF item_id = NoneV
             THEN ResolveArgs(items, i + 1, reg, Append(acc, items[i]))
             ELSE LET obj == Lookup(reg, item_id)
                  IN  IF IsExc(obj) THEN obj
                      ELSE ResolveArgs(items, i + 1, reg, Append(acc, obj))

\* Lines 157-167: the entries of a returned tuple, entry by entry; objects
\* registered before a TypeError stay registered.
RECURSIVE SerializeTuple(_, _, _, _)
SerializeTuple(items, i, reg, acc) ==
    IF i > Len(items) THEN [reply |-> ListV(acc), reg |-> reg]
    ELSE IF is_base_type(items[i])
    THEN SerializeTuple(items, i + 1, reg, Append(acc, items[i]))
    ELSE IF is_cubit_type(items[i])
    THEN SerializeTuple(items, i + 1, Register(reg, items[i]),
                        Append(acc, object_to_id(items[i])))
    ELSE [reply |-> Exc("TypeError"), reg |-> reg]

\* Lines 150-176: what is sent for a return value.
SerializeReturn(cubit_return, reg) ==
    IF is_base_type(cubit_return) THEN [reply |-> cubit_return, reg |-> reg]
    ELSE IF cubit_return.t = "tuple" THEN SerializeTuple(cubit_return.v, 1, reg, <<>>)
    ELSE IF is_cubit_type(cubit_return)
    THEN [reply |-> object_to_id(cubit_return), reg |-> Register(reg, cubit_return)]
    ELSE [reply |-> Exc("TypeError"), reg |-> reg]


\* Line 128: a method call is refused while the Registry holds more entries.
RegistryLimit == 10000

\* Mutant: the call that finds exactly the limit is refused as well.
RegistryFullAtLimit(reg) == Cardinality(DOMAIN reg) >= RegistryLimit

\* Line 128: len(cubit_objects) > 10000
RegistryFull(reg) == Cardinality(DOMAIN reg) > RegistryLimit

\* A request that ends in an exception: nothing is sent, nothing changes.
Raise(e, reg, heap) ==
    [reply |-> e, reg |-> reg, heap |-> heap, invoked |-> FALSE, args |-> NoneV, ret |-> NoneV]

\* for item in receive[2]: the entries of a list or tuple, the characters of
\* a str, TypeError for anything else.
IterItems(x) ==
    IF x.t \in {"list", "tuple"} THEN ListV(x.v)
    ELSE IF IsStr(x) THEN ListV([i \in 1..Len(x.v) |-> Str(<<x.v[i]>>)])
    ELSE Exc("TypeError")

\* Mutant: an exception of the engine is caught and answered with None.
EngineRaisedMasked(e, args, reg) ==
    [reply |-> NoneV, reg |-> reg, heap |-> e.heap, invoked |-> TRUE, args |-> args,
     ret |-> e.ret]

\* Line 148 stands in no try block: what the engine raises leaves the script.
EngineRaised(e, args, reg) ==
    [reply |-> e.ret, reg |-> reg, heap |-> e.heap, invoked |-> TRUE, args |-> args,
     ret |-> e.ret]

\* Lines 121-176: a method call on the object registered under target_id.
MethodDispatch(receive, target_id, reg, heap) ==
    IF RegistryFull(reg) THEN {Raise(Exc("OverflowError"), reg, heap)}
    ELSE LET call_object == Lookup(reg, target_id)
             function == Item(receive, 1)
             arg_list == Item(receive, 2)
         IN  IF IsExc(call_object) THEN {Raise(call_object, reg, heap)}
             ELSE IF IsExc(function) THEN {Raise(function, reg, heap)}
             ELSE IF IsExc(arg_list) THEN {Raise(arg_list, reg, heap)}
             ELSE IF IsExc(IterItems(arg_list)) THEN {Raise(IterItems(arg_list), reg, heap)}
             ELSE LET args == ResolveArgs(IterItems(arg_list).v, 1, reg, <<>>)
                  IN  IF IsExc(args) THEN {Raise(args, reg, heap)}
                      ELSE {IF IsExc(e.ret)
                            THEN EngineRaised(e, args, reg)
                            ELSE [reply |-> SerializeReturn(e.ret, reg).reply,
                                  reg |-> SerializeReturn(e.ret, reg).reg,
                                  heap |-> e.heap,
                                  invoked |-> TRUE, args |-> args, ret |-> e.ret]
                            : e \in EngineOutcomes(heap)}

\* Lines 178-192: the geometry-kind test.
IsinstanceDispatch(receive, reg, heap) ==
    LET id_item == Item(receive, 1)
        key == IF IsExc(id_item) THEN id_item ELSE string_to_id(id_item)
        compare_object == IF IsExc(key) THEN key ELSE Lookup(reg, key)
        kind == Item(receive, 2)
        Answer(class) ==
            [reply |-> BoolV(compare_object.class = class), reg |-> reg, heap |-> heap,
             invoked |-> FALSE, args |-> NoneV, ret |-> NoneV]
    IN  IF IsExc(compare_object) THEN Raise(compare_object, reg, heap)
        ELSE IF IsExc(kind) THEN Raise(kind, reg, heap)
        ELSE IF kind = Str(S_vertex) THEN Answer("Vertex")
        ELSE IF kind = Str(S_curve) THEN Answer("Curve")
        ELSE IF kind = Str(S_surface) THEN Answer("Surface")
        ELSE IF kind = Str(S_volume) THEN Answer("Volume")
        ELSE Raise(Exc("ValueError"), reg, heap)

\* Lines 194-200: the names of the callable attributes of the object.
GetMethodsDispatch(receive, reg, heap) ==
    LET id_item == Item(receive, 1)
        key == IF IsExc(id_item) THEN id_item ELSE string_to_id(id_item)
        cubit_object == IF IsExc(key) THEN key ELSE Lookup(reg, key)
    IN  IF IsExc(cubit_object) THEN Raise(cubit_object, reg, heap)
        ELSE [reply |-> ListV(<<Str(S_method)>>), reg |-> reg, heap |-> heap,
              invoked |-> FALSE, args |-> NoneV, ret |-> NoneV]

\* Mutant: an unknown action is answered with None.
NotImplementedIgnored(receive, reg, heap) ==
    [reply |-> NoneV, reg |-> reg, heap |-> heap, invoked |-> FALSE, args |-> NoneV,
     ret |-> NoneV]

\* Lines 202-204: the else branch of the loop body.
NotImplementedCase(receive, reg, heap) == Raise(Exc("ValueError"), reg, heap)

\* Lines 117-204: the branches of the loop body for a message that is not
\* None.  The result is the set of possible outcomes (the engine decides).
Dispatch(receive, reg, heap) ==
    LET first == Item(receive, 0)
    IN  IF IsExc(first) THEN {Raise(first, reg, heap)}
        ELSE IF ~IsStr(first) THEN {Raise(Exc("TypeError"), reg, heap)}
        ELSE IF IsExc(string_to_id(first)) THEN {Raise(string_to_id(first), reg, heap)}
        ELSE IF string_to_id(first) # NoneV
        THEN MethodDispatch(receive, string_to_id(first), reg, heap)
        ELSE IF first = Str(S_isinstance) THEN {IsinstanceDispatch(receive, reg, heap)}
        ELSE IF first = Str(S_get_methods) THEN {GetMethodsDispatch(receive, reg, heap)}
        ELSE {NotImplementedCase(receive, reg, heap)}


(***************************************************************************)
(* Host side: cubit_wrapper_host.py and cubit_wrapper3.py.                 *)
(***************************************************************************)
\* A host value that is a CubitObject: v is its position in proxies.
ProxyV(pid) == [t |-> "proxy", v |-> pid]
\* The function get_attribute / get_function returns for a proxy.
FunctionV(pid) == [t |-> "function", v |-> pid]

\* Mutant: CubitObject.__init__ without its check.
HandleAcceptedAlways(cubit_data_list) == TRUE

\* CubitObject.__init__ raises TypeError unless cubit_data_list has an id.
HandleAccepted(cubit_data_list) == cubit_item_to_id(cubit_data_list) # NoneV

\* CubitObject.__init__ / CubitObjectMain: the fields of a new proxy.
NewProxy(cubit_data_list, main) == [cubit_id |-> cubit_data_list, main |-> main, live |-> TRUE]

\* The text CubitObject.__str__ puts in front of the display text.
S_CubitObject == <<"<", "C", "u", "b", "i", "t", "O", "b", "j", "e", "c", "t", ">", "\"">>

\* Mutant: the display text as it is.
CubitObject_str_display(proxy) ==
    IF IsExc(Item(proxy.cubit_id, 1)) THEN Item(proxy.cubit_id, 1)
    ELSE IF ~IsStr(Item(proxy.cubit_id, 1)) THEN Exc("TypeError")
    ELSE Item(proxy.cubit_id, 1)

\* CubitObject.__str__: '<CubitObject>"' + self.cubit_id[1] + '"'; IndexError
\* for a cubit_id of one entry, TypeError when the entry is no text.
CubitObject_str(proxy) ==
    IF IsExc(Item(proxy.cubit_id, 1)) THEN Item(proxy.cubit_id, 1)
    ELSE IF ~IsStr(Item(proxy.cubit_id, 1)) THEN Exc("TypeError")
    ELSE Str(S_CubitObject \o Item(proxy.cubit_id, 1).v \o <<"\"">>)

\* cubitpy_types.GeometryType: the members of the enumeration.
GeometryType == {"vertex", "curve", "surface", "volume"}

\* GeometryType.get_cubit_string: the text of a member.
get_cubit_string(item) ==
    CASE item = "vertex" -> Str(<<"v", "e", "r", "t", "e", "x">>)
      [] item = "curve" -> Str(<<"c", "u", "r", "v", "e">>)
      [] item = "surface" -> Str(<<"s", "u", "r", "f", "a", "c", "e">>)
      [] item = "volume" -> Str(<<"v", "o", "l", "u", "m", "e">>)
      [] OTHER -> Exc("ValueError")

\* A host value that is a member of cupy.geometry.
EnumV(item) == [t |-> "enum", v |-> item]

\* Mutant: every member is sent as 'vertex'.
GeometryCodeOfVertex(item) == get_cubit_string("vertex")

\* item.get_cubit_string() for a member of cupy.geometry.
GeometryCode(item) == get_cubit_string(item.v)

\* serialize_item of cubit_wrapper_host: sequences element by element, a
\* CubitObject by its cubit_id, float(item) and int(item) for numbers (a bool
\* is an int), a member of cupy.geometry by its text, everything else as it
\* is.
RECURSIVE serialize_item(_, _)
serialize_item(item, px) ==
    IF item.t \in {"tuple", "list"}
    THEN ListV([i \in 1..Len(item.v) |-> serialize_item(item.v[i], px)])
    ELSE IF item.t = "proxy" THEN px[item.v].cubit_id
    ELSE IF item.t = "bool" THEN IntV(IF item.v THEN 1 ELSE 0)
    ELSE IF item.t = "enum" THEN GeometryCode(item)
    ELSE item

\* serialize_item of cubit_wrapper3: sequences element by element, a
\* CubitObject by its cubit_id, everything else as it is.
RECURSIVE serialize_item3(_, _)
serialize_item3(item, px) ==
    IF item.t \in {"tuple", "list"}
    THEN ListV([i \in 1..Len(item.v) |-> serialize_item3(item.v[i], px)])
    ELSE IF item.t = "proxy" THEN px[item.v].cubit_id
    ELSE item

\* The message of function(*args) on a proxy.
CallMessage(pid, args, px) ==
    ListV(<<px[pid].cubit_id, Str(S_method), serialize_item(TupleV(args), px)>>)

\* Lines 234-244 of the host: the entries of a returned list.
RECURSIVE DeserializeList(_, _, _, _)
DeserializeList(items, i, px, acc) ==
    IF i > Len(items) THEN [val |-> ListV(acc), px |-> px]
    ELSE LET item_id == cubit_item_to_id(items[i])
         IN  IF IsExc(item_id) THEN [val |-> item_id, px |-> px]
             ELSE IF item_id # NoneV
             THEN DeserializeList(items, i + 1, Append(px, NewProxy(items[i], FALSE)),
                                  Append(acc, ProxyV(Len(px) + 1)))
             ELSE IF is_base_type(items[i])
             THEN DeserializeList(items, i + 1, px, Append(acc, items[i]))
             ELSE [val |-> Exc("TypeError"), px |-> px]

\* Lines 227-251 of the host: the value function(*args) returns for a reply.
Deserialize(cubit_return, px) ==
    LET ret_id == cubit_item_to_id(cubit_return)
    IN  IF IsExc(ret_id) THEN [val |-> ret_id, px |-> px]
        ELSE IF ret_id # NoneV
        THEN [val |-> ProxyV(Len(px) + 1), px |-> Append(px, NewProxy(cubit_return, FALSE))]
        ELSE IF IsList(cubit_return) THEN DeserializeList(cubit_return.v, 1, px, <<>>)
        ELSE IF is_base_type(cubit_return) THEN [val |-> cubit_return, px |-> px]
        ELSE [val |-> Exc("TypeError"), px |-> px]

\* bool(x) of a reply.
Truthy(x) ==
    CASE x.t = "none" -> FALSE
      [] x.t = "bool" -> x.v
      [] x.t \in {"int", "float"} -> x.v # 0
      [] x.t \in {"str", "list", "tuple"} -> Len(x.v) > 0
      [] OTHER -> TRUE

\* The argv-like list of the init message.
cubit_arguments == ListV(<<Str(<<"c", "u", "b", "i", "t">>)>>)

\* The parameters message: the dictionaries the two hosts build, with and
\* without the log entry, the dictionary with the key the client reads, and
\* a message that is no dictionary.
ParameterMessages ==
    {DictV({"__file__", "cubit_lib_path"}), DictV({"__file__", "cubit_lib_path", "tty"}),
     DictV({"__file__", "cubit_bin_path"}), DictV({"__file__", "cubit_bin_path", "tty"}),
     DictV({"__file__", "cubit_path"}), DictV({"__file__", "cubit_path", "tty"}),
     ListV(<<>>)}

\* The second message of the handshake: the one the hosts send, and the
\* malformed ones lines 92-95 of the client reject.
InitMessages ==
    {ListV(<<Str(S_init), cubit_arguments>>),
     ListV(<<Str(S_init)>>),
     ListV(<<Str(S_label), cubit_arguments>>)}

\* The text of the id of the object at an address.
IdText(a) == Str(S_prefix \o StrOfInt(a))

\* Addresses named in the messages below: the cubit module and its neighbour.
TargetAddrs == {RootAddr, RootAddr + 1}

\* Argument lists handed to send_and_return directly: its docstring takes a
\* list whose first item is an action or a cubit item id.
RawMessages ==
    {NoneV,
     ListV(<<Str(S_label)>>),
     ListV(<<IntV(1)>>),
     ListV(<<IdText(RootAddr), Str(S_method),
             ListV(<<ListV(<<IdText(RootAddr), IdText(RootAddr)>>),
                     FloatV(35), Str(S_label)>>)>>)}
    \cup {ListV(<<IdText(a), Str(S_method), ListV(<<>>)>>) : a \in TargetAddrs}
    \cup {ListV(<<IdText(RootAddr), Str(S_method), ListV(<<IdText(a)>>)>>) : a \in TargetAddrs}
    \cup {ListV(<<Str(S_isinstance), IdText(a), Str(S_volume)>>) : a \in TargetAddrs}
    \cup {ListV(<<Str(S_isinstance), IdText(a), get_cubit_string("volume")>>) : a \in TargetAddrs}
    \cup {ListV(<<Str(S_get_methods), IdText(RootAddr)>>)}
    \cup {ListV(<<Str(S_delete), IdText(a)>>) : a \in TargetAddrs}

\* Arguments of a call made through a proxy.
CallArguments(px) ==
    {<<>>, <<IntV(1)>>}
    \cup {<<ProxyV(p)>> : p \in 1..Len(px)}
    \cup {<<ListV(<<ProxyV(p), ProxyV(q)>>), FloatV(35), Str(S_label)>> :
            p \in 1..Len(px), q \in 1..Len(px)}

(***************************************************************************)
(* State.                                                                  *)
(***************************************************************************)
VARIABLES
    \* client process (cubit_wrapper2.py)
    state,          \* position of the script
    clientExc,      \* the exception that ended the script, "none" otherwise
    parameters,     \* the module global parameters
    cubit_objects,  \* the Object Registry: address -> object
    engineInit,     \* cubit.init has been called
    heap,           \* the live engine objects
    clientLast,     \* the last message handled and what came of it
    \* execnet channel
    h2c,            \* host -> client, in order
    c2h,            \* client -> host, in order
    chanClosed,     \* the host side has seen the channel close
    gwExited,       \* gw.exit() has run
    \* host process
    host,           \* which host module drives the connection
    hpc,            \* "new", "opening", "open", "failed"
    inflight,       \* the send_and_return invocation waiting in receive
    todo,           \* the next send of the host operation in progress
    proxies,        \* the CubitObject instances, in order of creation
    hret,           \* what the last host operation returned or raised
    cubit_lib,      \* the engine library path __init__ resolved, None before it ran
    gw,             \* "none", or "made" once execnet.makegateway has run
    ncalls,         \* send_and_return invocations after the handshake
    nSent,          \* messages put on the channel by the host
    nRecv,          \* replies taken from the channel by the host
    \* log bridge
    log_check,      \* the host attached the private log file (self.log_check)
    logFile,        \* contents of cupy.temp_log: the requests the engine wrote in
    logOut,         \* the last block the host printed, and the call it followed
    \* two connections of one host process
    connections,    \* connection -> its CubitConnect instance and its client
    logFiles,       \* log file path -> contents
    \* the codec functions applied to one value
    codec,          \* the function applied, its argument and its result
    \* a CubitPy object and its engine
    py              \* its lists, the engine's blocks and node sets, the last operation

clientVars == <<state, clientExc, parameters, cubit_objects, engineInit, heap, clientLast>>
chanVars == <<h2c, c2h, chanClosed, gwExited>>
hostVars == <<host, hpc, inflight, todo, proxies, hret, cubit_lib, gw, ncalls, nSent, nRecv>>
logVars == <<log_check, logFile, logOut>>
sideVars == <<connections, logFiles>>
codecVars == <<codec>>
vars == <<clientVars, chanVars, hostVars, logVars, sideVars, codecVars, py>>

Hosts == {"cubit_wrapper_host", "cubit_wrapper3"}

\* Two CubitConnect instances of one host process, and the log files: the
\* one at cupy.temp_log and the one each user may name in cubit_arguments.
Conns == {"A", "B"}
temp_log == "temp_log"
UserLog(c) == "user_log_" \o c
LogPaths == {temp_log} \cup {UserLog(c) : c \in Conns}
NoConnection ==
    [pc |-> "new", log_check |-> FALSE, log |-> temp_log, cubit_objects |-> {},
     cubit |-> 0, calls |-> 0, out |-> <<>>]

NoOp == [op |-> "none", msg |-> NoneV, k |-> 0, pid |-> 0]
NoLast ==
    [req |-> NoneV, reply |-> NoneV, invoked |-> FALSE, args |-> NoneV, ret |-> NoneV,
     k |-> 0, log |-> <<>>]
NoBlock == [call |-> 0, text |-> <<>>]

\* No codec function has been applied.
NoCodec == [op |-> "none", in |-> NoneV, out |-> NoneV, px |-> <<>>]

\* CubitPy.__init__: the engine was reset and both lists are empty.  The
\* lists are kept by their length.
NoPy ==
    [blocks |-> 0, node_sets |-> 0, engine_blocks |-> {}, engine_nodesets |-> {},
     op |-> "__init__", arg |-> "", raised |-> "none", external |-> FALSE]

\* The two processes and the channel right after construction.
InitProgram ==
    /\ state = "AwaitingParameters"
    /\ clientExc = "none"
    /\ parameters = DictV({})
    /\ cubit_objects = <<>>
    /\ engineInit = FALSE
    /\ heap = {CubitModule}
    /\ clientLast = NoLast
    /\ h2c = <<>>
    /\ c2h = <<>>
    /\ chanClosed = FALSE
    /\ gwExited = FALSE
    /\ host \in Hosts
    /\ hpc = "new"
    /\ inflight = NoOp
    /\ todo = NoOp
    /\ proxies = <<>>
    /\ hret = NoneV
    /\ cubit_lib = NoneV
    /\ gw = "none"
    /\ ncalls = 0
    /\ nSent = 0
    /\ nRecv = 0
    /\ log_check = FALSE
    /\ logFile = <<>>
    /\ logOut = NoBlock
    /\ connections = [c \in Conns |-> NoConnection]
    /\ logFiles = [f \in LogPaths |-> <<>>]
    /\ py = NoPy

Init == InitProgram /\ codec = NoCodec

(***************************************************************************)
(* Client actions.                                                         *)
(***************************************************************************)
\* What the engine writes into its log file while it serves request k: with
\* the private log file attached (the host then also sets parameters['tty'])
\* a line for the command it runs, named here by the request; nothing into
\* that file when the user chose the log.
EngineWrites(k) == IF "tty" \in parameters.v THEN {<<k>>} ELSE {<<>>}

\* Mutant: the reply is sent twice.
SendReplyTwice(queue, reply, k) ==
    Append(Append(queue, [m |-> reply, k |-> k]), [m |-> reply, k |-> k])

\* channel.send(reply) in the client; k names the request it answers.
SendReply(queue, reply, k) == Append(queue, [m |-> reply, k |-> k])

\* Mutant: the script ends without the sentinel.
LoopExitSilent(queue, k) == queue

\* Lines 207-208: after the loop the script sends 'EOF'.
LoopExit(queue, k) == Append(queue, [m |-> Str(S_EOF), k |-> k])

\* Mutant: any second message is taken for the init message.
InitCheckNone(init) == NoneV

\* Lines 92-95: the checks of the init message; the exception raised, or
\* None when the message is accepted.
InitCheck(init) ==
    LET tag == Item(init, 0)
    IN  IF IsExc(tag) THEN tag
        ELSE IF tag # Str(S_init) THEN Exc("ValueError")
        ELSE IF Len(init.v) # 2 THEN Exc("ValueError")
        ELSE NoneV

\* Mutant: the script swallows the exception and goes on receiving.
ClientRaiseSwallowed(e) == UNCHANGED <<state, clientExc>>

\* The script ends with an exception: nothing more is received or sent.
ClientRaise(e) ==
    /\ state' = "Terminated"
    /\ clientExc' = e.v

\* Mutant: the acknowledgement follows the type check of line 76.
AcknowledgesAccepted(receive) == receive.t = "dict"

\* Line 75 follows the receive of line 74 directly: whatever was received is
\* acknowledged.
Acknowledges(receive) == TRUE

\* Lines 74-86: the parameters message.  The acknowledgement is sent right
\* after the receive; the type check, the two path lookups and the imports
\* follow it.
ClientParameters ==
    /\ state = "AwaitingParameters"
    /\ h2c # <<>>
    /\ LET receive == Head(h2c)
       IN  /\ h2c' = Tail(h2c)
           /\ parameters' = receive.m
           /\ c2h' = (IF Acknowledges(receive.m) THEN SendReply(c2h, NoneV, receive.k)
                      ELSE c2h)
           /\ clientLast' = [NoLast EXCEPT !.req = receive.m, !.k = receive.k]
           /\ IF receive.m.t # "dict" THEN ClientRaise(Exc("TypeError"))
              ELSE IF ~({"__file__", "cubit_path"} \subseteq receive.m.v)
              THEN ClientRaise(Exc("KeyError"))
              ELSE \/ ClientRaise(Exc("ImportError"))
                   \/ state' = "AwaitingInit" /\ clientExc' = clientExc
    /\ UNCHANGED <<cubit_objects, engineInit, heap, chanClosed, gwExited, hostVars, logVars>>
    /\ UNCHANGED <<sideVars, codecVars, py>>

\* Lines 91-98: the init message.
ClientInit ==
    /\ state = "AwaitingInit"
    /\ h2c # <<>>
    /\ LET init == Head(h2c).m
       IN  /\ h2c' = Tail(h2c)
           /\ IF IsExc(InitCheck(init))
              THEN /\ ClientRaise(InitCheck(init))
                   /\ clientLast' = [NoLast EXCEPT !.req = init, !.reply = InitCheck(init),
                                                   !.k = Head(h2c).k]
                   /\ UNCHANGED <<cubit_objects, engineInit, c2h, logFile>>
              ELSE /\ engineInit' = TRUE
                   /\ \E text \in EngineWrites(Head(h2c).k) :
                        /\ logFile' = logFile \o text
                        /\ clientLast' = [NoLast EXCEPT !.req = init,
                                                        !.reply = object_to_id(CubitModule),
                                                        !.k = Head(h2c).k, !.log = text]
                   /\ cubit_objects' = Register(cubit_objects, CubitModule)
                   /\ c2h' = SendReply(c2h, object_to_id(CubitModule), Head(h2c).k)
                   /\ state' = "Serving"
                   /\ clientExc' = clientExc
    /\ UNCHANGED <<parameters, heap, chanClosed, gwExited, hostVars, log_check, logOut>>
    /\ UNCHANGED <<sideVars, codecVars, py>>

\* Lines 103-208: one turn of the loop.  None ends the loop and the script
\* sends 'EOF'; any other message is dispatched, and an exception ends the
\* script without a reply.
ClientServe ==
    /\ state = "Serving"
    /\ h2c # <<>>
    /\ LET receive == Head(h2c)
       IN  /\ h2c' = Tail(h2c)
           /\ IF receive.m = NoneV
              THEN /\ c2h' = LoopExit(c2h, receive.k)
                   /\ state' = "Terminated"
                   /\ clientLast' = [NoLast EXCEPT !.reply = Str(S_EOF), !.k = receive.k]
                   /\ UNCHANGED <<clientExc, cubit_objects, heap, logFile>>
              ELSE \E o \in Dispatch(receive.m, cubit_objects, heap) :
                   /\ cubit_objects' = o.reg
                   /\ heap' = o.heap
                   /\ \E text \in (IF o.invoked THEN EngineWrites(receive.k) ELSE {<<>>}) :
                        /\ logFile' = logFile \o text
                        /\ clientLast' = [req |-> receive.m, reply |-> o.reply,
                                          invoked |-> o.invoked, args |-> o.args,
                                          ret |-> o.ret, k |-> receive.k, log |-> text]
                   /\ IF IsExc(o.reply)
                      THEN ClientRaise(o.reply) /\ c2h' = c2h
                      ELSE /\ c2h' = SendReply(c2h, o.reply, receive.k)
                           /\ UNCHANGED <<state, clientExc>>
    /\ UNCHANGED <<parameters, engineInit, chanClosed, gwExited, hostVars, log_check, logOut>>
    /\ UNCHANGED <<sideVars, codecVars, py>>


\* The script has ended and the close of the channel reaches the host.
ChannelClose ==
    /\ state = "Terminated"
    /\ ~chanClosed
    /\ chanClosed' = TRUE
    /\ UNCHANGED <<clientVars, h2c, c2h, gwExited, hostVars, logVars>>
    /\ UNCHANGED <<sideVars, codecVars, py>>

(***************************************************************************)
(* Host actions.                                                           *)
(***************************************************************************)
\* Mutant: the log file is never emptied.
TruncateLogSkipped(op, file) == file

\* function, before the send: with log_check the log file is emptied.
TruncateLog(op, file) == IF op = "call" /\ log_check THEN <<>> ELSE file

\* function, after send_and_return: with log_check the contents of the log
\* file are printed; c is the invocation they follow.
ReadLog(op, file, c) ==
    IF op = "call" /\ log_check THEN [call |-> c, text |-> file] ELSE logOut

\* The invocation the host is in once the one in receive has returned: the
\* one a finalizer interrupted, none otherwise.
Resume(call) == IF "outer" \in DOMAIN call THEN call.outer ELSE NoOp

\* The end of a send_and_return invocation of operation op with result r (a
\* reply, None, or an exception), and what the caller does with it.
Return(op, pid, r, px, file, c) ==
    /\ inflight' = Resume(inflight)
    /\ logOut' = (IF IsExc(r) THEN logOut ELSE ReadLog(op, file, c))
    /\ CASE op = "params" ->
              \* __init__ goes on to the init message unless the call raised
              IF IsExc(r)
              THEN hpc' = "failed" /\ hret' = r /\ todo' = NoOp /\ proxies' = px
              ELSE /\ \E init \in InitMessages :
                        todo' = [op |-> "init", msg |-> init, k |-> 0, pid |-> 0]
                   /\ UNCHANGED <<hpc, hret>>
                   /\ proxies' = px
         [] op = "init" ->
              \* self.cubit = CubitObjectMain(self, cubit_id)
              /\ todo' = NoOp
              /\ IF IsExc(r) THEN hpc' = "failed" /\ hret' = r /\ proxies' = px
                 ELSE IF IsExc(cubit_item_to_id(r))
                 THEN hpc' = "failed" /\ hret' = cubit_item_to_id(r) /\ proxies' = px
                 ELSE IF ~HandleAccepted(r)
                 THEN hpc' = "failed" /\ hret' = Exc("TypeError") /\ proxies' = px
                 ELSE hpc' = "open" /\ hret' = NoneV /\ proxies' = <<NewProxy(r, TRUE)>>
         [] op = "iscallable" ->
              \* get_attribute: the function, or its value when not callable
              /\ hpc' = hpc /\ proxies' = px
              /\ IF IsExc(r) THEN hret' = r /\ todo' = NoOp
                 ELSE IF Truthy(r) THEN hret' = FunctionV(pid) /\ todo' = NoOp
                 ELSE /\ hret' = hret
                      /\ todo' = [op |-> "call", msg |-> CallMessage(pid, <<>>, px),
                                  k |-> 0, pid |-> pid]
         [] op = "call" ->
              /\ hpc' = hpc /\ todo' = NoOp
              /\ IF IsExc(r) THEN hret' = r /\ proxies' = px
                 ELSE hret' = Deserialize(r, px).val /\ proxies' = Deserialize(r, px).px
         [] OTHER ->
              \* raw, isinstance, delete: the reply is the result
              hpc' = hpc /\ todo' = NoOp /\ hret' = r /\ proxies' = px

\* Mutant: send_and_return without the except clause.
OnClosedSendRaises(h, op) == Exc("IOError")

\* What send_and_return gives when channel.send raises on a closed channel:
\* cubit_wrapper_host catches it and returns None; cubit_wrapper3 returns
\* None from __del__ (check_number_of_channels) and lets it pass otherwise.
OnClosedSend(h, op) ==
    IF h = "cubit_wrapper_host" \/ op = "delete" THEN NoneV ELSE Exc("IOError")

\* Mutant: what channel.receive raises leaves send_and_return in both hosts.
OnClosedReceiveRaises(h) == Exc("EOFError")

\* What send_and_return gives when channel.receive raises.
OnClosedReceive(h) == IF h = "cubit_wrapper_host" THEN NoneV ELSE Exc("EOFError")

\* send_and_return up to the receive.  cubit_wrapper_host catches whatever
\* send raises and returns None; cubit_wrapper3 lets it pass, and returns
\* None without sending when asked to check the channels and none is left.
Begin(op, msg, pid, px) ==
    IF chanClosed
    THEN /\ logFile' = TruncateLog(op, logFile)
         /\ Return(op, pid, OnClosedSend(host, op), px, TruncateLog(op, logFile), ncalls + 1)
         /\ UNCHANGED <<h2c, nSent>>
    ELSE /\ logFile' = TruncateLog(op, logFile)
         /\ logOut' = logOut
         /\ h2c' = Append(h2c, [m |-> msg, k |-> nSent + 1])
         /\ nSent' = nSent + 1
         /\ inflight' = [op |-> op, msg |-> msg, k |-> nSent + 1, pid |-> pid]
         /\ todo' = NoOp
         /\ proxies' = px
         /\ UNCHANGED <<hpc, hret>>

\* The library path handed to CubitConnect: None, or a path.
S_path == <<"/", "c">>
LibraryArguments == {NoneV, Str(S_path)}

\* conf.get_path for CUBIT_ROOT: the path when the variable is set and names
\* a directory, ValueError otherwise.
get_path(env) == IF env THEN Str(S_path) ELSE Exc("ValueError")

\* The library path __init__ goes on with, or the exception it raises:
\* cubit_wrapper3 raises ValueError for None, cubit_wrapper_host asks
\* cupy.get_cubit_lib_path().
ResolveLibrary(h, arg, env) ==
    IF arg # NoneV THEN arg
    ELSE IF h = "cubit_wrapper3" THEN Exc("ValueError")
    ELSE get_path(env)

\* Mutant: the gateway is made whatever the path is.
MakesGatewayAlways(lib) == TRUE

\* execnet.makegateway comes after the path is resolved, so it is reached
\* only when that did not raise.
MakesGateway(lib) == ~IsExc(lib)

\* CubitConnect.__init__ up to the first send.
HostOpen ==
    /\ hpc = "new"
    /\ \E arg \in LibraryArguments, env \in BOOLEAN :
         LET lib == ResolveLibrary(host, arg, env)
         IN  /\ cubit_lib' = lib
             /\ IF MakesGateway(lib)
                THEN /\ gw' = "made"
                     /\ hpc' = "opening"
                     /\ \E p \in ParameterMessages :
                          /\ h2c' = Append(h2c, [m |-> p, k |-> nSent + 1])
                          /\ inflight' = [op |-> "params", msg |-> p, k |-> nSent + 1,
                                          pid |-> 0]
                          /\ log_check' = (p.t = "dict" /\ "tty" \in p.v)
                     /\ nSent' = nSent + 1
                     /\ hret' = hret
                ELSE /\ hpc' = "failed"
                     /\ hret' = lib
                     /\ UNCHANGED <<gw, h2c, inflight, log_check, nSent>>
    /\ UNCHANGED <<clientVars, c2h, chanClosed, gwExited, host, todo, proxies, ncalls,
                   nRecv, logFile, logOut>>
    /\ UNCHANGED <<sideVars, codecVars, py>>

\* The next send of the operation in progress.
HostContinue ==
    /\ todo.op # "none"
    /\ inflight.op = "none"
    /\ Begin(todo.op, todo.msg, todo.pid, proxies)
    /\ ncalls' = IF hpc = "open" THEN ncalls + 1 ELSE ncalls
    /\ UNCHANGED <<clientVars, c2h, chanClosed, gwExited, host, nRecv, log_check, cubit_lib, gw>>
    /\ UNCHANGED <<sideVars, codecVars, py>>

\* channel.receive() returns the next reply.
HostReceive ==
    /\ inflight.op # "none"
    /\ c2h # <<>>
    /\ c2h' = Tail(c2h)
    /\ Return(inflight.op, inflight.pid, Head(c2h).m, proxies, logFile, ncalls)
    /\ nRecv' = nRecv + 1
    /\ UNCHANGED <<clientVars, h2c, chanClosed, gwExited, host, ncalls, nSent, log_check, cubit_lib, gw,
                   logFile>>
    /\ UNCHANGED <<sideVars, codecVars, py>>

\* channel.receive() raises: the channel is closed and holds no reply.
HostReceiveClosed ==
    /\ inflight.op # "none"
    /\ c2h = <<>>
    /\ chanClosed
    /\ Return(inflight.op, inflight.pid, OnClosedReceive(host), proxies, logFile, ncalls)
    /\ UNCHANGED <<clientVars, chanVars, host, ncalls, nSent, nRecv, log_check, logFile,
                   cubit_lib, gw>>
    /\ UNCHANGED <<sideVars, codecVars, py>>

\* The host is between operations and may start one.
HostIdle ==
    /\ hpc = "open"
    /\ inflight.op = "none"
    /\ todo.op = "none"
    /\ ncalls < MaxCalls

\* send_and_return(argument_list) called directly.
HostRaw ==
    /\ HostIdle
    /\ \E msg \in RawMessages : Begin("raw", msg, 0, proxies)
    /\ ncalls' = ncalls + 1
    /\ UNCHANGED <<clientVars, c2h, chanClosed, gwExited, host, nRecv, log_check, cubit_lib, gw>>
    /\ UNCHANGED <<sideVars, codecVars, py>>

\* function(*args) on a proxy: cubit_wrapper3 hands out the function without
\* asking, cubit_wrapper_host after an iscallable answer that is true.
HostCall ==
    /\ HostIdle
    /\ \E pid \in 1..Len(proxies) :
         /\ proxies[pid].live
         /\ host = "cubit_wrapper3" \/ hret = FunctionV(pid)
         /\ \E args \in CallArguments(proxies) :
              Begin("call", CallMessage(pid, args, proxies), pid, proxies)
    /\ ncalls' = ncalls + 1
    /\ UNCHANGED <<clientVars, c2h, chanClosed, gwExited, host, nRecv, log_check, cubit_lib, gw>>
    /\ UNCHANGED <<sideVars, codecVars, py>>

\* Reading a remote attribute of a proxy with cubit_wrapper_host.
HostGetAttribute ==
    /\ HostIdle
    /\ host = "cubit_wrapper_host"
    /\ \E pid \in 1..Len(proxies) :
         /\ proxies[pid].live
         /\ Begin("iscallable",
                  ListV(<<Str(S_iscallable), proxies[pid].cubit_id, Str(S_method)>>),
                  pid, proxies)
    /\ ncalls' = ncalls + 1
    /\ UNCHANGED <<clientVars, c2h, chanClosed, gwExited, host, nRecv, log_check, cubit_lib, gw>>
    /\ UNCHANGED <<sideVars, codecVars, py>>

\* CubitObject.isinstance
HostIsinstance ==
    /\ HostIdle
    /\ \E pid \in 1..Len(proxies) :
         /\ proxies[pid].live
         /\ Begin("isinstance",
                  ListV(<<Str(S_isinstance), proxies[pid].cubit_id, Str(S_volume)>>),
                  pid, proxies)
    /\ ncalls' = ncalls + 1
    /\ UNCHANGED <<clientVars, c2h, chanClosed, gwExited, host, nRecv, log_check, cubit_lib, gw>>
    /\ UNCHANGED <<sideVars, codecVars, py>>

\* Mutant: CubitObjectMain inherits __del__ of CubitObject.
SendsDeleteAlways(proxy) == TRUE

\* CubitObjectMain overrides __del__ with pass.
SendsDelete(proxy) == ~proxy.main

\* __del__ of a proxy that became unreachable.
HostFinalize ==
    /\ hpc = "open"
    /\ inflight.op = "none"
    /\ todo.op = "none"
    /\ \E pid \in 1..Len(proxies) :
         /\ proxies[pid].live
         /\ LET px == [proxies EXCEPT ![pid].live = FALSE]
            IN  IF SendsDelete(proxies[pid])
                THEN /\ ncalls < MaxCalls
                     /\ Begin("delete", ListV(<<Str(S_delete), proxies[pid].cubit_id>>),
                              pid, px)
                     /\ ncalls' = ncalls + 1
                ELSE /\ proxies' = px
                     /\ UNCHANGED <<h2c, nSent, inflight, todo, hpc, hret, ncalls, logFile,
                                    logOut>>
    /\ UNCHANGED <<clientVars, c2h, chanClosed, gwExited, host, nRecv, log_check, cubit_lib, gw>>
    /\ UNCHANGED <<sideVars, codecVars, py>>

\* gw.exit() at interpreter exit: the channel closes and the client process
\* is terminated.
GatewayExit ==
    /\ hpc = "open"
    /\ inflight.op = "none"
    /\ todo.op = "none"
    /\ ~gwExited
    /\ gwExited' = TRUE
    /\ chanClosed' = TRUE
    /\ IF state = "Terminated" THEN UNCHANGED <<state, clientExc>>
       ELSE state' = "Terminated" /\ clientExc' = "killed"
    /\ UNCHANGED <<parameters, cubit_objects, engineInit, heap, clientLast, h2c, c2h, hostVars,
                   logVars>>
    /\ UNCHANGED <<sideVars, codecVars, py>>

Next ==
    \/ ClientParameters
    \/ ClientInit
    \/ ClientServe
    \/ ChannelClose
    \/ HostOpen
    \/ HostContinue
    \/ HostReceive
    \/ HostReceiveClosed
    \/ HostRaw
    \/ HostCall
    \/ HostGetAttribute
    \/ HostIsinstance
    \/ HostFinalize
    \/ GatewayExit

Spec == Init /\ [][Next]_vars

\* Liveness is checked on the behaviours with at most this many
\* send_and_return invocations after the handshake.
MaxLiveCalls == 1

\* Scheduling: the client process runs whenever a message waits for it and
\* execnet delivers the close of the channel once the script has ended;
\* channel.receive() in the host returns or raises as soon as it can.
Fairness ==
    /\ WF_vars(ClientParameters \/ ClientInit \/ ClientServe \/ ChannelClose)
    /\ WF_vars(HostReceive \/ HostReceiveClosed)

NextLive == Next /\ ncalls' <= MaxLiveCalls

SpecLive == Init /\ [][NextLive]_vars /\ Fairness

(***************************************************************************)
(* Two connections opened side by side in one host process, as            *)
(* test_create_block_multiple does.  The host has one thread: while it     *)
(* waits in send_and_return of one connection it does nothing else.  Each  *)
(* client is a process of its own with its own cubit_objects.              *)
(***************************************************************************)
HostThreadIdle == \A d \in Conns : connections[d].pc \in {"new", "open"}

\* A line the engine of connection c writes while it serves call n of that
\* connection (0: cubit.init).
LogLine(c, n) == [conn |-> c, call |-> n]

\* CubitConnect.__init__ with the handshake: without a log argument of the
\* user the engine is started with -log=cupy.temp_log and log_check is set.
\* cubit.init writes into the log file; the client registers the module.
SideOpen(c) ==
    /\ HostThreadIdle
    /\ connections[c].pc = "new"
    /\ \E log_given \in BOOLEAN :
         LET path == IF log_given THEN UserLog(c) ELSE temp_log
         IN  /\ connections' = [connections EXCEPT ![c] =
                    [pc |-> "open", log_check |-> ~log_given, log |-> path,
                     cubit_objects |-> {RootAddr}, cubit |-> RootAddr, calls |-> 0,
                     out |-> <<>>]]
             /\ logFiles' = [logFiles EXCEPT ![path] = @ \o <<LogLine(c, 0)>>]
    /\ UNCHANGED <<clientVars, chanVars, hostVars, logVars, codecVars, py>>

\* function up to the receive: with log_check the file at cupy.temp_log is
\* emptied, then the request is sent.
SideCall(c) ==
    /\ HostThreadIdle
    /\ connections[c].pc = "open"
    /\ connections[c].calls < MaxSideCalls
    /\ connections' = [connections EXCEPT ![c].pc = "sent"]
    /\ logFiles' = IF connections[c].log_check THEN [logFiles EXCEPT ![temp_log] = <<>>]
                   ELSE logFiles
    /\ UNCHANGED <<clientVars, chanVars, hostVars, logVars, codecVars, py>>

\* The client of c serves the request: the engine runs the method, writes
\* into its log file and may return a new object, which is registered.
SideServe(c) ==
    /\ connections[c].pc = "sent"
    /\ \E created \in BOOLEAN :
         connections' = [connections EXCEPT
             ![c].pc = "served",
             ![c].cubit_objects =
                 IF created THEN @ \cup {RootAddr + Cardinality(@)} ELSE @]
    /\ logFiles' = [logFiles EXCEPT ![connections[c].log] =
                        @ \o <<LogLine(c, connections[c].calls + 1)>>]
    /\ UNCHANGED <<clientVars, chanVars, hostVars, logVars, codecVars, py>>

\* function after the receive: with log_check the contents of the file at
\* cupy.temp_log are printed.
SideReturn(c) ==
    /\ connections[c].pc = "served"
    /\ connections' = [connections EXCEPT
           ![c].pc = "open",
           ![c].calls = @ + 1,
           ![c].out = IF connections[c].log_check THEN logFiles[temp_log] ELSE @]
    /\ UNCHANGED <<clientVars, chanVars, hostVars, logVars, logFiles, codecVars, py>>

InitSide == Init /\ host = "cubit_wrapper3"

NextSide ==
    \E c \in Conns :
        \/ SideOpen(c)
        \/ SideCall(c)
        \/ SideServe(c)
        \/ SideReturn(c)

SpecSide == InitSide /\ [][NextSide]_vars

(***************************************************************************)
(* Proxies the caller builds and finalizers that run inside a call.  The   *)
(* constructor of CubitObject is public: the caller may wrap a Handle that *)
(* send_and_return gave back.  Python runs __del__ whenever the garbage    *)
(* collector finds the object, also while the host waits in receive.       *)
(***************************************************************************)
\* CubitObject(cubit_connect, cubit_data_list) for the Handle the last
\* send_and_return returned.
HostWrap ==
    /\ HostIdle
    /\ Len(proxies) <= MaxObjects
    /\ IsList(hret) /\ ~IsExc(cubit_item_to_id(hret)) /\ HandleAccepted(hret)
    /\ proxies' = Append(proxies, NewProxy(hret, FALSE))
    /\ UNCHANGED <<clientVars, chanVars, host, hpc, inflight, todo, hret, cubit_lib, gw, ncalls,
                   nSent, nRecv, logVars>>
    /\ UNCHANGED <<sideVars, codecVars, py>>

\* __del__ of a proxy runs while a send_and_return invocation waits in
\* receive: its own send_and_return sends the delete message and waits in
\* receive in turn.
HostFinalizeNested ==
    /\ hpc = "open"
    /\ inflight.op # "none"
    /\ "outer" \notin DOMAIN inflight
    /\ ~chanClosed
    /\ ncalls < MaxCalls
    /\ \E pid \in 1..Len(proxies) :
         /\ proxies[pid].live
         /\ SendsDelete(proxies[pid])
         /\ proxies' = [proxies EXCEPT ![pid].live = FALSE]
         /\ LET msg == ListV(<<Str(S_delete), proxies[pid].cubit_id>>)
            IN  /\ h2c' = Append(h2c, [m |-> msg, k |-> nSent + 1])
                /\ inflight' = [op |-> "delete", msg |-> msg, k |-> nSent + 1, pid |-> pid,
                                outer |-> inflight]
    /\ nSent' = nSent + 1
    /\ ncalls' = ncalls + 1
    /\ UNCHANGED <<clientVars, c2h, chanClosed, gwExited, host, hpc, todo, hret, cubit_lib, gw,
                   nRecv, logVars>>
    /\ UNCHANGED <<sideVars, codecVars, py>>

NextWrap ==
    \/ Next
    \/ HostWrap
    \/ HostFinalizeNested

SpecWrap == Init /\ [][NextWrap]_vars

(***************************************************************************)
(* proxy.X(args) written by the caller after the channel has closed: no    *)
(* send reaches the client, so the attribute read, the call of function    *)
(* inside it and the application of its value to args run in one piece.    *)
(***************************************************************************)
\* __getattribute__ falls through to get_attribute (cubit_wrapper_host) or
\* get_function (cubit_wrapper3); the value it returns is then applied to
\* args.  Applying a value that is not a function raises TypeError.
HostInvokeClosed ==
    /\ HostIdle
    /\ chanClosed
    /\ \E pid \in 1..Len(proxies) :
         /\ proxies[pid].live
         /\ LET sends == IF host = "cubit_wrapper_host" THEN 2 ELSE 1
                called == LET r == OnClosedSend(host, "call")
                          IN  IF IsExc(r) THEN r ELSE Deserialize(r, proxies).val
                callable == OnClosedSend(host, "iscallable")
                attribute == IF host = "cubit_wrapper3" THEN FunctionV(pid)
                             ELSE IF IsExc(callable) THEN callable
                             ELSE IF Truthy(callable) THEN FunctionV(pid)
                             ELSE called
                applied == IF IsExc(attribute) THEN attribute
                           ELSE IF attribute.t = "function" THEN called
                           ELSE Exc("TypeError")
            IN  /\ ncalls + sends <= MaxCalls
                /\ ncalls' = ncalls + sends
                /\ hret' = applied
                /\ logFile' = TruncateLog("call", logFile)
                /\ logOut' = IF IsExc(called) THEN logOut
                             ELSE ReadLog("call", TruncateLog("call", logFile), ncalls + sends)
    /\ UNCHANGED <<clientVars, chanVars, host, hpc, inflight, todo, proxies, cubit_lib, gw,
                   nSent, nRecv, log_check>>
    /\ UNCHANGED <<sideVars, codecVars, py>>

NextInvoke ==
    \/ Next
    \/ HostInvokeClosed

SpecInvoke == Init /\ [][NextInvoke]_vars

(***************************************************************************)
(* A connection that has been serving for a long time: the Registry holds  *)
(* an entry for every object the engine ever returned.                     *)
(***************************************************************************)
\* The Registry after n objects were registered: the cubit module and n - 1
\* volumes at addresses the engine hands out no more.
LongRegistry(n) ==
    [a \in {RootAddr} \cup ((RootAddr + MaxObjects + 1) .. (RootAddr + MaxObjects + n - 1)) |->
        IF a = RootAddr THEN CubitModule ELSE ObjV(a, "Volume")]

\* A connection in Serving, between two requests, with a Registry out of
\* the given ones and a host out of the given ones; the counters count
\* from here.
InitServing(registries, hosts) ==
    /\ state = "Serving"
    /\ clientExc = "none"
    /\ parameters = DictV({"__file__", "cubit_path"})
    /\ cubit_objects \in registries
    /\ engineInit = TRUE
    /\ heap = {CubitModule}
    /\ clientLast = NoLast
    /\ h2c = <<>>
    /\ c2h = <<>>
    /\ chanClosed = FALSE
    /\ gwExited = FALSE
    /\ host \in hosts
    /\ hpc = "open"
    /\ inflight = NoOp
    /\ todo = NoOp
    /\ proxies = <<NewProxy(object_to_id(CubitModule), TRUE)>>
    /\ hret = NoneV
    /\ cubit_lib = Str(S_path)
    /\ gw = "made"
    /\ ncalls = 0
    /\ nSent = 0
    /\ nRecv = 0
    /\ log_check = FALSE
    /\ logFile = <<>>
    /\ logOut = NoBlock
    /\ connections = [c \in Conns |-> NoConnection]
    /\ logFiles = [f \in LogPaths |-> <<>>]
    /\ codec = NoCodec
    /\ py = NoPy

\* The Registry at its limit or one entry above it.
InitFull ==
    InitServing({LongRegistry(RegistryLimit), LongRegistry(RegistryLimit + 1)}, Hosts)

\* The steps of a connection after the handshake.
NextFull ==
    \/ ClientServe
    \/ ChannelClose
    \/ HostContinue
    \/ HostReceive
    \/ HostReceiveClosed
    \/ HostRaw
    \/ HostCall
    \/ HostGetAttribute
    \/ HostIsinstance
    \/ HostFinalize
    \/ GatewayExit

SpecFull == InitFull /\ [][NextFull]_vars

(***************************************************************************)
(* cubitpy.py: the block and node set bookkeeping of a CubitPy object.     *)
(* Every method of the engine is called through self.cubit, the root proxy *)
(* of cubit_wrapper3: the value the engine returns is serialized by the    *)
(* client and deserialized by function of the host before CubitPy sees it. *)
(* One method of CubitPy runs from entry to return or raise in one step:   *)
(* the bridge is synchronous.                                              *)
(***************************************************************************)
\* The largest block or node set id the commands of the model name.
MaxSetId == 3

\* get_block_id_list / get_nodeset_id_list in the engine: the ids, in
\* increasing order, as a tuple.
IdTuple(S) ==
    TupleV([i \in 1..Cardinality(S) |->
                IntV(CHOOSE x \in S : Cardinality({y \in S : y < x}) = i - 1)])

\* What a call through self.cubit gives for the value the engine returned:
\* lines 150-176 of the client, then lines 169-189 of function.
function_return(value) ==
    LET reply == SerializeReturn(value, <<>>).reply
    IN  IF IsExc(reply) THEN reply ELSE Deserialize(reply, <<>>).val

\* The method ends with exception e, after the changes in after.
PyRaise(op, arg, e, after) == [after EXCEPT !.op = op, !.arg = arg, !.raised = e]

\* cubitpy.py 179-244
add_element_type ==
    /\ py.blocks < MaxSetId
    /\ \E item_ok \in BOOLEAN :
         LET n_blocks == py.blocks
             id_list == function_return(IdTuple(py.engine_blocks))
             op == "add_element_type"
             created == [py EXCEPT !.engine_blocks = @ \cup {n_blocks + 1}]
         IN  py' = IF IsExc(id_list) THEN PyRaise(op, "", id_list.v, py)
                   ELSE IF Len(id_list.v) # n_blocks THEN PyRaise(op, "", "ValueError", py)
                   ELSE IF ~item_ok THEN PyRaise(op, "", "TypeError", py)
                   ELSE PyRaise(op, "", "none", [created EXCEPT !.blocks = n_blocks + 1])
    /\ UNCHANGED <<clientVars, chanVars, hostVars, logVars, sideVars, codecVars>>

\* cubitpy.py 246-257: the list is emptied before the blocks are asked for.
reset_blocks ==
    /\ LET id_list == function_return(IdTuple(py.engine_blocks))
           emptied == [py EXCEPT !.blocks = 0]
       IN  py' = IF IsExc(id_list) THEN PyRaise("reset_blocks", "", id_list.v, emptied)
                 ELSE PyRaise("reset_blocks", "", "none",
                              [emptied EXCEPT !.engine_blocks = {}, !.external = FALSE])
    /\ UNCHANGED <<clientVars, chanVars, hostVars, logVars, sideVars, codecVars>>

\* cubitpy.py 498-505: cubit.reset() returns None, then both lists are set
\* anew.
reset ==
    /\ LET done == function_return(NoneV)
       IN  py' = IF IsExc(done) THEN PyRaise("reset", "", done.v, py)
                 ELSE [NoPy EXCEPT !.op = "reset"]
    /\ UNCHANGED <<clientVars, chanVars, hostVars, logVars, sideVars, codecVars>>

\* cubitpy.py 259-329: the node set is created (303) before the two
\* arguments are looked at (318-326).
add_node_set ==
    /\ py.node_sets < MaxSetId
    /\ \E bc_type \in BOOLEAN, bc_section \in BOOLEAN, item_ok \in BOOLEAN :
         LET n_node_sets == py.node_sets
             id_list == function_return(IdTuple(py.engine_nodesets))
             op == "add_node_set"
             arg == IF bc_type = bc_section THEN "bc_invalid" ELSE "bc_valid"
             created == [py EXCEPT !.engine_nodesets = @ \cup {n_node_sets + 1}]
         IN  py' = IF IsExc(id_list) THEN PyRaise(op, arg, id_list.v, py)
                   ELSE IF Len(id_list.v) # n_node_sets THEN PyRaise(op, arg, "ValueError", py)
                   ELSE IF ~item_ok THEN PyRaise(op, arg, "TypeError", py)
                   ELSE IF bc_type = bc_section THEN PyRaise(op, arg, "ValueError", created)
                   ELSE PyRaise(op, arg, "none",
                                [created EXCEPT !.node_sets = n_node_sets + 1])
    /\ UNCHANGED <<clientVars, chanVars, hostVars, logVars, sideVars, codecVars>>

\* cubit_wrapper3.py 287-314: get_node_ids of a geometry proxy; nodes is what
\* the engine returns for the nodes of the temporary node set.
get_node_ids ==
    /\ \E nodes \in {TupleV(<<>>), TupleV(<<IntV(1)>>)} :
         LET id_list == function_return(IdTuple(py.engine_nodesets))
             Max(S) == CHOOSE x \in S : \A y \in S : y <= x
             temp_node_set_id ==
                 Max({0} \cup {id_list.v[i].v : i \in 1..Len(id_list.v)}) + 1
             node_ids == function_return(nodes)
             op == "get_node_ids"
         IN  IF IsExc(id_list) THEN py' = PyRaise(op, "", id_list.v, py)
             ELSE /\ temp_node_set_id <= MaxSetId
                  /\ py' = IF IsExc(node_ids)
                           THEN PyRaise(op, "", node_ids.v,
                                        [py EXCEPT !.engine_nodesets = @ \cup {temp_node_set_id}])
                           ELSE PyRaise(op, "", "none", py)
    /\ UNCHANGED <<clientVars, chanVars, hostVars, logVars, sideVars, codecVars>>

\* cubitpy.py 126-131: CubitPy hands every other call to the engine, so the
\* caller may create a block or a node set by a command of its own.
cmd ==
    /\ \E i \in 1..MaxSetId, kind \in {"block", "nodeset"} :
         py' = IF kind = "block"
               THEN PyRaise("cmd", kind, "none",
                            [py EXCEPT !.engine_blocks = @ \cup {i}, !.external = TRUE])
               ELSE PyRaise("cmd", kind, "none", [py EXCEPT !.engine_nodesets = @ \cup {i}])
    /\ UNCHANGED <<clientVars, chanVars, hostVars, logVars, sideVars, codecVars>>


NextPy ==
    \/ add_element_type
    \/ reset_blocks
    \/ reset
    \/ add_node_set
    \/ get_node_ids
    \/ cmd

\* CubitPy() connects through cubit_wrapper3 (cubitpy.py 100-102); the
\* Registry holds the cubit module.
SpecPy == InitServing({LongRegistry(1)}, {"cubit_wrapper3"}) /\ [][NextPy]_vars

(***************************************************************************)
(* The codec functions, each applied to one value: the classification of   *)
(* an engine result in the client and the deserialization of a reply in    *)
(* the host.                                                               *)
(***************************************************************************)
\* An engine object next to the cubit module, of a cubit class and of a
\* foreign class.
VolumeObj == ObjV(RootAddr + 1, "Volume")
OtherObj == ObjV(RootAddr + 1, "other")

\* Sequences of one up to the given number of entries.
SeqsUpTo(S, n) == UNION {[1..k -> S] : k \in 1..n}

\* Values an engine method may hand to the client: its own objects, base
\* values (among them a text that starts like an id), objects of other types
\* and tuples of these.
EngineLeaves ==
    {IntV(1), Str(S_label), NoneV, IdText(RootAddr), VolumeObj, OtherObj, DictV({}),
     TupleV(<<>>)}
EngineValues == EngineLeaves \cup {TupleV(q) : q \in SeqsUpTo(EngineLeaves, MaxSeq)}

\* Values channel.receive() may hand to the host.
WireLeaves ==
    {IntV(1), Str(S_label), NoneV, IdText(RootAddr), object_to_id(VolumeObj), DictV({}),
     ListV(<<>>)}
WireValues == WireLeaves \cup {ListV(q) : q \in SeqsUpTo(WireLeaves, MaxSeq)}

\* Arguments handed to function(*args): members of cupy.geometry, texts,
\* None and numbers, alone and inside lists, down to the third level.
ArgLeaves == {EnumV(g) : g \in GeometryType} \cup {Str(S_label), NoneV, BoolV(TRUE)}
ArgItems ==
    ArgLeaves
    \cup {ListV(<<x>>) : x \in ArgLeaves}
    \cup {ListV(<<ListV(<<Str(S_label), EnumV(g)>>)>>) : g \in GeometryType}
ArgValues == {TupleV(q) : q \in SeqsUpTo(ArgItems, MaxSeq)}

CodecInputs == EngineValues \cup WireValues \cup ArgValues

InitCodec ==
    /\ InitProgram
    /\ codec \in {[NoCodec EXCEPT !.in = v] : v \in CodecInputs}

\* Lines 150-176 of the client for the value the engine returned: what is
\* sent, or the exception raised in place of the send.
CodecReturn ==
    /\ codec.op = "none"
    /\ codec.in \in EngineValues
    /\ codec' = [codec EXCEPT !.op = "return",
                               !.out = SerializeReturn(codec.in, <<>>).reply]
    /\ UNCHANGED <<clientVars, chanVars, hostVars, logVars, sideVars, py>>

\* Lines 227-251 of the host for the reply received: what function returns
\* or raises, and the proxies it built.
CodecDeserialize ==
    /\ codec.op = "none"
    /\ codec.in \in WireValues
    /\ codec' = [codec EXCEPT !.op = "deserialize",
                               !.out = Deserialize(codec.in, <<>>).val,
                               !.px = Deserialize(codec.in, <<>>).px]
    /\ UNCHANGED <<clientVars, chanVars, hostVars, logVars, sideVars, py>>

\* arguments = serialize_item(args) in function of the host in use.
CodecSerialize ==
    /\ codec.op = "none"
    /\ codec.in \in ArgValues
    /\ codec' = [codec EXCEPT !.op = "serialize",
                               !.out = IF host = "cubit_wrapper_host"
                                       THEN serialize_item(codec.in, <<>>)
                                       ELSE serialize_item3(codec.in, <<>>)]
    /\ UNCHANGED <<clientVars, chanVars, hostVars, logVars, sideVars, py>>

\* The reply the client sent for the engine value reaches the host: lines
\* 227-251 of the host for it.
CodecReceive ==
    /\ codec.op = "return"
    /\ ~IsExc(codec.out)
    /\ codec' = [codec EXCEPT !.op = "result",
                               !.out = Deserialize(codec.out, <<>>).val,
                               !.px = Deserialize(codec.out, <<>>).px]
    /\ UNCHANGED <<clientVars, chanVars, hostVars, logVars, sideVars, py>>

\* str(proxy) for the proxy the deserialization returned.
CodecStr ==
    /\ codec.op = "deserialize"
    /\ codec.out.t = "proxy"
    /\ codec' = [codec EXCEPT !.op = "str", !.out = CubitObject_str(codec.px[codec.out.v])]
    /\ UNCHANGED <<clientVars, chanVars, hostVars, logVars, sideVars, py>>

NextCodec ==
    \/ CodecReturn
    \/ CodecDeserialize
    \/ CodecSerialize
    \/ CodecReceive
    \/ CodecStr

SpecCodec == InitCodec /\ [][NextCodec]_vars

(***************************************************************************)
(* Properties.                                                             *)
(***************************************************************************)
Rank(st) ==
    CASE st = "AwaitingParameters" -> 1
      [] st = "AwaitingInit" -> 2
      [] st = "Serving" -> 3
      [] st = "Terminated" -> 4

\* The tag of a request: its first element when it is a text.
IsRequest(msg, tag) == msg.t = "list" /\ Len(msg.v) > 0 /\ msg.v[1] = Str(tag)

ClientStateOrder ==
    [][/\ Rank(state') >= Rank(state)
       /\ state' # state => (Rank(state') = Rank(state) + 1 \/ state' = "Terminated")
       /\ (state # state' /\ state \in {"AwaitingParameters", "AwaitingInit"}) =>
            ((h2c # <<>> /\ h2c' = Tail(h2c)) \/ clientExc' = "killed")
       /\ state = "AwaitingParameters" =>
            /\ cubit_objects' = <<>> /\ ~engineInit'
            /\ c2h' = c2h \/ c2h' = Append(c2h, [m |-> NoneV, k |-> Head(h2c).k])
       /\ (state = "AwaitingInit" /\ state' = "AwaitingInit") =>
            (c2h' = c2h \/ c2h' = Tail(c2h)) /\ cubit_objects' = <<>> /\ ~engineInit'
       /\ (state = "AwaitingInit" /\ state' = "Serving") =>
            /\ Head(h2c).m.t = "list" /\ Len(Head(h2c).m.v) = 2
            /\ Head(h2c).m.v[1] = Str(S_init)
            /\ engineInit' /\ DOMAIN cubit_objects' = {RootAddr}
            /\ c2h' = Append(c2h, [m |-> object_to_id(CubitModule), k |-> Head(h2c).k])
       /\ (state = "AwaitingInit" /\ state' = "Terminated") =>
            c2h' = c2h /\ cubit_objects' = <<>> /\ ~engineInit'
      ]_vars

\* The client went through all four states and left the loop on None.
AllFourStates ==
    state = "Terminated" /\ clientExc = "none" /\ engineInit /\ RootAddr \in DOMAIN cubit_objects

\* C3: every Registry entry holds a live object whose id is the key it is
\* stored under, so no two registered objects share an id.
RegistryUnique ==
    /\ \A key \in DOMAIN cubit_objects :
         PyId(cubit_objects[key]) = key /\ cubit_objects[key] \in heap
    /\ \A k1, k2 \in DOMAIN cubit_objects :
         k1 # k2 => /\ cubit_objects[k1] # cubit_objects[k2]
                    /\ object_to_id(cubit_objects[k1]).v[1] # object_to_id(cubit_objects[k2]).v[1]
    /\ \A o1, o2 \in heap : PyId(o1) = PyId(o2) => o1 = o2

\* The Registry holds the cubit module and two objects, the last ones
\* registered from a tuple.
ThreeRegistered ==
    /\ Cardinality(DOMAIN cubit_objects) = 3
    /\ clientLast.ret.t = "tuple"
    /\ state = "Serving"

\* C5: finalizing the root proxy puts nothing on the channel, and once the
\* root object is registered it stays registered under its id.
RootImmortal ==
    /\ [][(Len(proxies) > 0 /\ Len(proxies') > 0 /\ proxies[1].main
           /\ proxies[1].live /\ ~proxies'[1].live) =>
             (h2c' = h2c /\ nSent' = nSent /\ inflight' = inflight)]_vars
    /\ [](engineInit =>
            RootAddr \in DOMAIN cubit_objects /\ cubit_objects[RootAddr] = CubitModule)
    /\ [][(RootAddr \in DOMAIN cubit_objects) =>
            (RootAddr \in DOMAIN cubit_objects'
             /\ cubit_objects'[RootAddr] = cubit_objects[RootAddr])]_vars

\* The root proxy has been finalized, calls have been served, and the client
\* still serves.
RootFinalizedStillServing ==
    /\ Len(proxies) > 0 /\ proxies[1].main /\ ~proxies[1].live
    /\ state = "Serving"
    /\ Cardinality(DOMAIN cubit_objects) >= 2
    /\ RootAddr \in DOMAIN cubit_objects

\* C10: on None the serving client sends 'EOF' once, ends, and leaves the
\* Registry as it is; a terminated client receives and sends nothing more.
TerminateOnNone ==
    [][/\ (state = "Serving" /\ h2c # <<>> /\ Head(h2c).m = NoneV /\ h2c' = Tail(h2c)) =>
            /\ state' = "Terminated"
            /\ clientExc' = "none"
            /\ c2h' = Append(c2h, [m |-> Str(S_EOF), k |-> Head(h2c).k])
            /\ cubit_objects' = cubit_objects
       /\ state = "Terminated" =>
            /\ state' = "Terminated"
            /\ clientExc' = clientExc
            /\ cubit_objects' = cubit_objects
            /\ c2h' = c2h \/ c2h' = Tail(c2h)
            /\ h2c' = h2c \/ (Len(h2c') = Len(h2c) + 1 /\ SubSeq(h2c', 1, Len(h2c)) = h2c)
      ]_vars

\* The loop was left on None and the host got the sentinel.
EofReceived ==
    state = "Terminated" /\ clientExc = "none" /\ hret = Str(S_EOF) /\ c2h = <<>>

\* C4: a delete request never ends the client's loop.
DeleteTolerated ==
    IsRequest(clientLast.req, S_delete) => ~IsExc(clientLast.reply)

\* A returned tuple with a tuple among its entries.
IsNestedResult(ret) ==
    ret.t = "tuple" /\ \E i \in 1..Len(ret.v) : ret.v[i].t = "tuple"

\* C6: a nested result [A, [B, C], D] is serialized by the client without
\* an exception.
NestedResultSerialized ==
    IsNestedResult(clientLast.ret) => ~IsExc(clientLast.reply)

\* A handle on the wire, as its id text or as the list [id text, display]
\* (a display text is no id text).
IsWireHandle(x) ==
    \/ (IsStr(x) /\ StartsWith(x.v, S_prefix))
    \/ /\ IsList(x) /\ Len(x.v) = 2
       /\ IsStr(x.v[1]) /\ StartsWith(x.v[1].v, S_prefix)
       /\ IsStr(x.v[2]) /\ ~StartsWith(x.v[2].v, S_prefix)

\* The arguments the engine is to see: every handle, at any depth, replaced
\* by the object registered under its id.
RECURSIVE DeepResolve(_, _)
DeepResolve(x, reg) ==
    IF IsWireHandle(x)
    THEN Lookup(reg, IF IsStr(x) THEN string_to_id(x) ELSE cubit_item_to_id(x))
    ELSE IF IsList(x) THEN ListV([i \in 1..Len(x.v) |-> DeepResolve(x.v[i], reg)])
    ELSE x

\* A call request, its target given by id text, one of whose arguments is
\* a list that holds the id text of a handle.
HasNestedHandle(req) ==
    /\ req.t = "list" /\ Len(req.v) = 3 /\ IsList(req.v[3])
    /\ IsStr(req.v[1]) /\ IsWireHandle(req.v[1])
    /\ \E i \in 1..Len(req.v[3].v) :
         /\ IsList(req.v[3].v[i]) /\ ~IsWireHandle(req.v[3].v[i])
         /\ \E j \in 1..Len(req.v[3].v[i].v) :
              IsStr(req.v[3].v[i].v[j]) /\ IsWireHandle(req.v[3].v[i].v[j])

\* C7: for a call with arguments [[h1, h2], 3.5, "label"] the engine is
\* invoked with the two registered objects in place of the nested handles.
NestedArgumentsResolved ==
    HasNestedHandle(clientLast.req) =>
        /\ clientLast.invoked
        /\ clientLast.args = DeepResolve(clientLast.req.v[3], cubit_objects)

\* The place of the target in a request made through a proxy.
WireTarget(call) == IF call.op = "call" THEN call.msg.v[1] ELSE call.msg.v[2]

\* C8: what a proxy puts on the wire for itself is the id text of its
\* handle, which the client finds in the Registry.
HandleRoundTrip ==
    inflight.op \in {"call", "isinstance", "iscallable", "delete"} =>
        /\ WireTarget(inflight) = proxies[inflight.pid].cubit_id.v[1]
        /\ string_to_id(WireTarget(inflight)) = IntV(RootAddr)

\* C9 as stated: an invocation begun on a closed channel sends nothing and
\* returns None without an exception.
ClosedCallReturnsNone ==
    [][(chanClosed /\ ncalls' = ncalls + 1) =>
         /\ h2c' = h2c /\ inflight' = NoOp
         /\ ~IsExc(hret')
         /\ todo'.op = "none" => hret' = NoneV
      ]_vars

\* C9 amended: with cubit_wrapper_host every invocation begun on a closed
\* channel returns None; with cubit_wrapper3 only the delete of __del__
\* does, and every other invocation raises the error of channel.send.
ClosedCallByHost ==
    [][(chanClosed /\ ncalls' = ncalls + 1) =>
         /\ h2c' = h2c /\ inflight' = NoOp
         /\ host = "cubit_wrapper_host" =>
              (~IsExc(hret') /\ (todo'.op = "none" => hret' = NoneV))
         /\ (host = "cubit_wrapper3" /\ proxies' # proxies) => hret' = NoneV
         /\ (host = "cubit_wrapper3" /\ proxies' = proxies) => hret' = Exc("IOError")
      ]_vars

\* With cubit_wrapper_host every invocation after the handshake was begun on
\* a closed channel, sent nothing and returned None.
ClosedCallsReturnedNone ==
    /\ host = "cubit_wrapper_host"
    /\ gwExited /\ ncalls = MaxCalls /\ nSent = 2
    /\ hret = NoneV /\ inflight.op = "none" /\ todo.op = "none"

\* The command tags of the protocol.
CommandTags ==
    {Str(S_isinstance), Str(S_get_methods), Str(S_get_self_dir), Str(S_iscallable),
     Str(S_delete)}

\* A message whose first element is neither an id nor a command tag.
UnrecognizedFirst(msg) ==
    /\ IsList(msg) /\ Len(msg.v) > 0
    /\ ~IsWireHandle(msg.v[1])
    /\ msg.v[1] \notin CommandTags

\* The serving client takes the message at the head of the channel.
ServesHead == state = "Serving" /\ h2c # <<>> /\ h2c' = Tail(h2c)

\* C11 as stated: a message with an unrecognized first element is answered
\* with one reply.
UnknownRequestAnswered ==
    [][(ServesHead /\ UnrecognizedFirst(Head(h2c).m)) =>
         c2h' = Append(c2h, [m |-> clientLast'.reply, k |-> Head(h2c).k])
      ]_vars

\* C11 amended: a message with an unrecognized first element makes the
\* client raise TypeError (first element no text) or ValueError (unknown
\* text): no reply is sent, the Registry is unchanged and the loop ends.
UnknownRequestRaises ==
    [][(ServesHead /\ UnrecognizedFirst(Head(h2c).m)) =>
         /\ c2h' = c2h
         /\ cubit_objects' = cubit_objects
         /\ state' = "Terminated"
         /\ clientExc' = (IF IsStr(Head(h2c).m.v[1]) THEN "ValueError" ELSE "TypeError")
         /\ clientLast'.reply = Exc(clientExc')
      ]_vars

\* The serving client got ['label'] and ended with ValueError; the host was
\* left waiting for the reply.
UnknownTagRaised ==
    /\ clientLast.req = ListV(<<Str(S_label)>>)
    /\ RootAddr \in DOMAIN cubit_objects
    /\ state = "Terminated" /\ clientExc = "ValueError"
    /\ c2h = <<>> /\ inflight.op = "raw"

\* C12: an exception of the engine during a method dispatch is not masked.
\* No reply is sent for the request and the loop ends; from then on the
\* client serves nothing, sends nothing and leaves the Registry as it is,
\* and the host neither opens the connection again nor sends the request
\* (or anything else) again.
EngineErrorNotMasked ==
    /\ [][(ServesHead /\ clientLast'.invoked /\ IsExc(clientLast'.ret)) =>
            /\ c2h' = c2h
            /\ cubit_objects' = cubit_objects
            /\ state' = "Terminated"
            /\ clientExc' = clientLast'.ret.v
         ]_vars
    /\ [][clientExc = "RuntimeError" =>
            /\ state' = "Terminated" /\ clientExc' = clientExc
            /\ cubit_objects' = cubit_objects /\ heap' = heap
            /\ clientLast' = clientLast
            /\ c2h' = c2h
            /\ h2c' = h2c /\ nSent' = nSent
            /\ hpc' = hpc
         ]_vars

\* The engine raised, the host's call ended with the close of the channel,
\* and the calls the host made afterwards sent nothing.
EngineRaisedThenCalls ==
    /\ clientExc = "RuntimeError" /\ clientLast.invoked
    /\ chanClosed /\ inflight.op = "none"
    /\ ncalls = MaxCalls /\ nSent = 3 /\ nRecv = 2

Without(reg, key) == [a \in DOMAIN reg \ {key} |-> reg[a]]

\* The key a delete request names, 0 when it names none.
DeleteKey(msg) ==
    LET it == Item(msg, 1)
        key == IF IsStr(it) THEN string_to_id(it) ELSE cubit_item_to_id(it)
    IN  IF key.t = "int" THEN key.v ELSE 0

\* C14: a delete request received in Serving removes exactly the entry of
\* its id, is answered with one acknowledgement and leaves the client in
\* Serving.
DeleteRemovesEntry ==
    [][(ServesHead /\ IsRequest(Head(h2c).m, S_delete)) =>
         /\ cubit_objects' = Without(cubit_objects, DeleteKey(Head(h2c).m))
         /\ Len(c2h') = Len(c2h) + 1
         /\ state' = "Serving"
      ]_vars

\* An id text whose id is no key of the Registry.
IsUnknownId(x, reg) ==
    IsStr(x) /\ string_to_id(x).t = "int" /\ string_to_id(x).v \notin DOMAIN reg

\* A method call or an isinstance request that names an unregistered id.
NamesUnknownId(msg, reg) ==
    /\ IsList(msg) /\ Len(msg.v) >= 2
    /\ \/ IsUnknownId(msg.v[1], reg)
       \/ (msg.v[1] = Str(S_isinstance) /\ IsUnknownId(msg.v[2], reg))

\* C15: a request that names an id which is not in the Registry is answered
\* and the client stays in Serving.
UnknownIdAnswered ==
    [][(ServesHead /\ NamesUnknownId(Head(h2c).m, cubit_objects)) =>
         /\ state' = "Serving"
         /\ Len(c2h') = Len(c2h) + 1
      ]_vars

ConnectionsIndependent ==
    /\ [][\A c \in Conns : connections'[c] # connections[c] =>
            \A d \in Conns \ {c} :
                /\ connections'[d] = connections[d]
                /\ connections[d].pc # "new" =>
                     logFiles'[connections[d].log] = logFiles[connections[d].log]
         ]_vars
    /\ [](\A c \in Conns : \A i \in 1..Len(connections[c].out) :
            connections[c].out[i] = LogLine(c, connections[c].calls))

\* C18: when no engine library path can be resolved, open ends with the
\* exception of the resolution: no gateway and no client process is made and
\* no message is sent; a gateway exists only with a resolved path.
ConfigurationErrorFirst ==
    /\ IsExc(cubit_lib) =>
         /\ hpc = "failed" /\ hret = cubit_lib /\ cubit_lib = Exc("ValueError")
         /\ gw = "none" /\ ~gwExited
         /\ nSent = 0 /\ h2c = <<>> /\ c2h = <<>>
         /\ state = "AwaitingParameters" /\ clientLast = NoLast /\ proxies = <<>>
    /\ gw = "made" => IsStr(cubit_lib)
    /\ hpc = "new" => (gw = "none" /\ nSent = 0)

\* open ended with the ValueError of the path resolution.
OpenFailedOnPath ==
    hpc = "failed" /\ hret = Exc("ValueError") /\ IsExc(cubit_lib) /\ gw = "none"

\* C19: open never ends with a connection whose root proxy has no valid
\* handle.  A connection that is open has a root proxy whose handle names
\* the registered cubit module; once the client has ended during the
\* handshake open does not succeed, and when it fails it raises and leaves
\* no proxy.
HandshakeFailureIsFatal ==
    /\ [](hpc = "open" =>
            /\ Len(proxies) >= 1 /\ proxies[1].main
            /\ cubit_item_to_id(proxies[1].cubit_id) = IntV(RootAddr)
            /\ RootAddr \in DOMAIN cubit_objects)
    /\ [][(hpc = "opening" /\ (clientExc # "none" \/ chanClosed)) => hpc' # "open"]_vars
    /\ [][(hpc = "opening" /\ hpc' # "opening") =>
            \/ hpc' = "open" /\ state = "Serving" /\ ~IsExc(hret')
            \/ hpc' = "failed" /\ IsExc(hret') /\ proxies' = <<>>
         ]_vars

\* With cubit_wrapper_host the client ended during the handshake,
\* send_and_return gave None for the init message, and open raised the
\* TypeError of CubitObject.__init__.
OpenFailedInHandshake ==
    /\ host = "cubit_wrapper_host"
    /\ hpc = "failed" /\ hret = Exc("TypeError") /\ proxies = <<>>
    /\ state = "Terminated" /\ clientExc # "none" /\ chanClosed

\* C20: reading a remote attribute takes one introspection round trip, and
\* for an attribute that is callable in the client (as the method read here
\* is) the bound function is returned and no call message is sent.
AttributeReadDecides ==
    /\ [][(inflight.op = "none" /\ inflight'.op = "iscallable") =>
            h2c' = Append(h2c, [m |-> inflight'.msg, k |-> nSent + 1])]_vars
    /\ [][(inflight.op = "iscallable" /\ inflight'.op = "none") =>
            /\ hret' = FunctionV(inflight.pid)
            /\ todo'.op = "none"
         ]_vars
\* The engine class a geometry kind stands for.
KindClass(item) ==
    CASE item = "vertex" -> "Vertex"
      [] item = "curve" -> "Curve"
      [] item = "surface" -> "Surface"
      [] item = "volume" -> "Volume"

\* The request is an isinstance request for a registered id and the kind
\* item, named as the host names it.
IsinstanceOf(msg, item, reg) ==
    /\ IsRequest(msg, S_isinstance) /\ Len(msg.v) = 3
    /\ string_to_id(msg.v[2]).t = "int"
    /\ string_to_id(msg.v[2]).v \in DOMAIN reg
    /\ msg.v[3] = get_cubit_string(item)

\* C21: an isinstance request on a registered id, with the kind named as the
\* host names it (vertex, curve, surface, volume), is answered with exactly
\* one boolean, true iff the registered object is of that kind, and the
\* Registry is unchanged.
IsinstanceAnswered ==
    [][\A item \in GeometryType :
         (ServesHead /\ IsinstanceOf(Head(h2c).m, item, cubit_objects)) =>
            /\ c2h' = Append(c2h,
                   [m |-> BoolV(cubit_objects[string_to_id(Head(h2c).m.v[2]).v].class
                                = KindClass(item)),
                    k |-> Head(h2c).k])
            /\ cubit_objects' = cubit_objects
      ]_vars
\* The engine objects of a return value that the client registers: the value
\* itself, or the entries of a returned tuple.
ObjectsIn(ret) ==
    IF is_cubit_type(ret) THEN {ret}
    ELSE IF ret.t = "tuple" THEN {ret.v[i] : i \in {j \in 1..Len(ret.v) : is_cubit_type(ret.v[j])}}
    ELSE {}

\* The request is a method call: its first element is the text of an id.
IsMethodCall(msg) ==
    /\ IsList(msg) /\ Len(msg.v) > 0
    /\ string_to_id(msg.v[1]).t = "int"

\* A method call, an isinstance request or an introspection request.
KeepsEntries(msg) ==
    \/ IsMethodCall(msg)
    \/ IsList(msg) /\ Len(msg.v) > 0 /\ msg.v[1] \in CommandTags \ {Str(S_delete)}

\* C22: the Registry grows only by init (the root) and by the results of a
\* method dispatch, each object under its own id however often it is
\* returned; no step removes or replaces an entry unless it serves a delete
\* message, and a method dispatch, an isinstance request and an introspection
\* request never do.
RegistryFrame ==
    [][/\ \A a \in DOMAIN cubit_objects :
            (a \notin DOMAIN cubit_objects' \/ cubit_objects'[a] # cubit_objects[a]) =>
               (ServesHead /\ IsRequest(Head(h2c).m, S_delete))
       /\ (ServesHead /\ KeepsEntries(Head(h2c).m)) =>
              \A a \in DOMAIN cubit_objects :
                  a \in DOMAIN cubit_objects' /\ cubit_objects'[a] = cubit_objects[a]
       /\ (ServesHead /\ ~IsMethodCall(Head(h2c).m)) => cubit_objects' = cubit_objects
       /\ \A a \in DOMAIN cubit_objects' \ DOMAIN cubit_objects :
            /\ PyId(cubit_objects'[a]) = a
            /\ \/ state = "AwaitingInit" /\ cubit_objects'[a] = CubitModule
               \/ /\ ServesHead /\ IsMethodCall(Head(h2c).m)
                  /\ clientLast'.invoked
                  /\ cubit_objects'[a] \in ObjectsIn(clientLast'.ret)
      ]_vars

\* One engine object was returned by two method calls in a row: the host
\* holds the Handle from the first call, the reply to the second is on its
\* way, and the Registry holds the root and this object.
ReturnedTwice ==
    /\ clientLast.invoked /\ is_cubit_type(clientLast.ret)
    /\ hret = object_to_id(clientLast.ret)
    /\ c2h = <<[m |-> object_to_id(clientLast.ret), k |-> clientLast.k]>>
    /\ DOMAIN cubit_objects = {RootAddr, PyId(clientLast.ret)}

\* A value the codec supports: a Base Value, a Handle (an engine object in
\* the client, the Handle shape on the wire), or a sequence of supported
\* values.
RECURSIVE Supported(_)
Supported(v) ==
    \/ is_base_type(v)
    \/ is_cubit_type(v)
    \/ IsList(v) /\ Len(v.v) > 0 /\ IsStr(v.v[1]) /\ StartsWith(v.v[1].v, S_prefix)
    \/ v.t \in {"list", "tuple"} /\ \A i \in 1..Len(v.v) : Supported(v.v[i])

LeavesParameters == state = "AwaitingParameters" /\ state' # state

StrOfDisplay ==
    /\ codec.op = "str"
    /\ Len(codec.in.v) >= 2 /\ IsStr(codec.in.v[2])

CanonicalCode(item) ==
    CASE item = "vertex" -> <<"v", "e", "r", "t", "e", "x">>
      [] item = "curve" -> <<"c", "u", "r", "v", "e">>
      [] item = "surface" -> <<"s", "u", "r", "f", "a", "c", "e">>
      [] item = "volume" -> <<"v", "o", "l", "u", "m", "e">>

\* out is what the claim expects for the argument arg: a list for a
\* sequence, entry by entry; the canonical code for a geometry kind; a text
\* or None itself.
RECURSIVE SerializedAs(_, _)
SerializedAs(arg, out) ==
    IF arg.t \in {"tuple", "list"}
    THEN /\ IsList(out) /\ Len(out.v) = Len(arg.v)
         /\ \A i \in 1..Len(arg.v) : SerializedAs(arg.v[i], out.v[i])
    ELSE IF arg.t = "enum" THEN out = Str(CanonicalCode(arg.v))
    ELSE IF arg.t \in {"str", "none"} THEN out = arg
    ELSE TRUE

\* out is arg with its sequences turned into lists and nothing else changed.
RECURSIVE PassedThrough(_, _)
PassedThrough(arg, out) ==
    IF arg.t \in {"tuple", "list"}
    THEN /\ IsList(out) /\ Len(out.v) = Len(arg.v)
         /\ \A i \in 1..Len(arg.v) : PassedThrough(arg.v[i], out.v[i])
    ELSE out = arg

IsPrefixedText(v) == IsStr(v) /\ StartsWith(v.v, S_prefix)

FinalizerKeepsAlternation ==
    /\ [][(Len(h2c') > Len(h2c) /\ IsRequest(h2c'[Len(h2c')].m, S_delete)) =>
            inflight.op = "none"]_vars
    /\ [][(inflight.op # "none" /\ c2h # <<>> /\ c2h' = Tail(c2h)) =>
            Head(c2h).k = inflight.k]_vars
\* The Registry key the Handle of a proxy names.
TargetOf(proxy) == cubit_item_to_id(proxy.cubit_id).v

\* C29: while a proxy is live and the client serves, the id of its Handle is
\* in the Registry; and when the client serves the delete request sent for
\* one of two proxies with the same id, it goes on serving and the entry of
\* the other proxy stays what it was.
ProxyOutlivesTwin ==
    /\ [](\A q \in 1..Len(proxies) :
            (proxies[q].live /\ hpc = "open" /\ state = "Serving") =>
                TargetOf(proxies[q]) \in DOMAIN cubit_objects)
    /\ [][\A p \in 1..Len(proxies), q \in 1..Len(proxies) :
            (/\ p # q
             /\ proxies[p].cubit_id = proxies[q].cubit_id
             /\ ~proxies[p].live /\ proxies[q].live
             /\ ServesHead
             /\ Head(h2c).m = ListV(<<Str(S_delete), proxies[p].cubit_id>>)) =>
                /\ state' = "Serving"
                /\ TargetOf(proxies[q]) \in DOMAIN cubit_objects'
                /\ cubit_objects'[TargetOf(proxies[q])] = cubit_objects[TargetOf(proxies[q])]
         ]_vars
\* No request is under way on an open connection whose client serves.
Quiescent ==
    /\ hpc = "open" /\ inflight.op = "none" /\ todo.op = "none"
    /\ ~chanClosed /\ state = "Serving"

\* Some live proxy names the Registry key a.
HasLiveProxy(a, px) == \E q \in 1..Len(px) : px[q].live /\ TargetOf(px[q]) = a

\* C30: the Registry does not leak.  At a quiescent point the entry of a
\* proxy that was built is in the Registry only while one of its proxies is
\* live; and when the client serves the delete request of the last proxy of
\* an entry, it goes on serving and the entry is gone, so that once all
\* proxies are finalized the Registry holds the root entry only.
RegistryDoesNotLeak ==
    /\ [](Quiescent =>
            \A p \in 1..Len(proxies) :
                (~proxies[p].main /\ TargetOf(proxies[p]) \in DOMAIN cubit_objects) =>
                    HasLiveProxy(TargetOf(proxies[p]), proxies))
    /\ [][\A p \in 1..Len(proxies) :
            (/\ ~proxies[p].main /\ ~proxies[p].live
             /\ ~HasLiveProxy(TargetOf(proxies[p]), proxies)
             /\ ServesHead
             /\ Head(h2c).m = ListV(<<Str(S_delete), proxies[p].cubit_id>>)) =>
                /\ state' = "Serving"
                /\ TargetOf(proxies[p]) \notin DOMAIN cubit_objects'
                /\ (\A q \in 1..Len(proxies) : ~proxies[q].live \/ proxies[q].main) =>
                       DOMAIN cubit_objects' = {RootAddr}
         ]_vars

\* C31: a call whose engine result is an empty sequence returns an empty list
\* to the host caller without raising: the client's reply for the empty tuple
\* deserializes to the empty list, and cubit_item_to_id of it is None.
EmptySequenceReturned ==
    (codec.op = "result" /\ codec.in = TupleV(<<>>))
        => /\ codec.out = ListV(<<>>)
           /\ cubit_item_to_id(ListV(<<>>)) = NoneV


\* C32: the host can tell a failed call from a successful one: when the
\* channel closed without a reply while send_and_return waited in receive,
\* what the invocation gives its caller is not a value a reply can be (it is
\* an exception), so it is never the None an engine method returns.
FailedCallDistinct ==
    [][(/\ inflight.op \in {"raw", "call"}
        /\ c2h = <<>>
        /\ chanClosed
        /\ inflight'.op = "none")
           => IsExc(hret')
      ]_vars


\* C33: after the transport has closed, proxy.X(args) completes on the host
\* without raising and yields None.  With cubit_wrapper_host the expression
\* is the one step that makes two send_and_return invocations.
InvokeOnClosedReturnsNone ==
    [][(/\ chanClosed
        /\ host = "cubit_wrapper_host"
        /\ ncalls' = ncalls + 2)
           => hret' = NoneV
      ]_vars


\* C34: every send_and_return invocation eventually returns: whichever
\* branch handles the request, the client sends a reply or ends its script,
\* which closes the channel, so the host does not wait in receive forever.
InvocationReturns == (inflight.op # "none") ~> (inflight.op = "none")

\* An invocation returned although the client sent no reply for it.
ReturnedWithoutReply ==
    /\ hpc = "open"
    /\ inflight.op = "none" /\ todo.op = "none"
    /\ nSent = nRecv + 1
    /\ nSent >= 3


\* C35: host and client agree on the wire protocol: every message an
\* operation of a Proxy sends in Serving (method call, isinstance, delete,
\* iscallable) is recognized by the dispatch loop, which answers it with
\* exactly one reply and goes on serving.
ProxyMessageAnswered ==
    [][(/\ state = "Serving"
        /\ h2c # <<>>
        /\ h2c' = Tail(h2c)
        /\ inflight.op \in {"call", "isinstance", "iscallable", "delete"}
        /\ inflight.k = Head(h2c).k)
           => /\ state' = "Serving"
              /\ Len(c2h') = Len(c2h) + 1
      ]_vars


\* C36: a method call is serviced only while the Registry holds at most
\* 10000 entries: with more, the client raises OverflowError before it
\* resolves the target or invokes the engine, sends no reply and leaves
\* Serving; with at most 10000 it does not raise OverflowError.  isinstance
\* and get_methods requests never end in OverflowError.
RegistryLimitChecked ==
    [][(state = "Serving" /\ h2c # <<>> /\ h2c' = Tail(h2c) /\ Head(h2c).m # NoneV)
           => IF IsMethodCall(Head(h2c).m) /\ Cardinality(DOMAIN cubit_objects) > 10000
              THEN /\ clientExc' = "OverflowError"
                   /\ state' = "Terminated"
                   /\ c2h' = c2h
                   /\ ~clientLast'.invoked
                   /\ cubit_objects' = cubit_objects
              ELSE clientExc' # "OverflowError"
      ]_vars

\* A method call was serviced with exactly 10000 entries and registered one
\* more, and the next method call was refused.
RefusedAboveLimit ==
    /\ clientExc = "OverflowError"
    /\ Cardinality(DOMAIN cubit_objects) = RegistryLimit + 1
    /\ nRecv >= 1


\* The step is one run of the named method of CubitPy.
PyStep(op) == py'.op = op /\ py' # py

\* C37: with blocks created through add_element_type only, the length of
\* blocks equals the number of blocks in the engine after every operation;
\* an add_element_type that finds the two equal creates the block whose id
\* is the new length of blocks (unless the item is no geometry), and one
\* that finds them different raises ValueError and creates nothing.
BlockCounterKept ==
    [][/\ ~py'.external => Cardinality(py'.engine_blocks) = py'.blocks
       /\ (PyStep("add_element_type") /\ ~py.external)
             => IF Cardinality(py.engine_blocks) = py.blocks
                THEN \/ /\ py'.raised = "none"
                        /\ py'.blocks = py.blocks + 1
                        /\ py'.engine_blocks = py.engine_blocks \cup {py'.blocks}
                        /\ py'.blocks \notin py.engine_blocks
                     \/ /\ py'.raised = "TypeError"
                        /\ py'.blocks = py.blocks
                        /\ py'.engine_blocks = py.engine_blocks
                ELSE /\ py'.raised = "ValueError"
                     /\ py'.blocks = py.blocks
                     /\ py'.engine_blocks = py.engine_blocks
      ]_vars

\* C38: reset() empties blocks and node_sets and resets the engine, so that
\* the build sequence run after it assigns the ids of the first run: the
\* add_element_type and the add_node_set that follow a reset create block 1
\* and node set 1.  reset_blocks() empties blocks and deletes every block of
\* the engine and leaves node_sets and the node sets of the engine alone.
ResetRestarts ==
    [][/\ PyStep("reset")
             => /\ py'.blocks = 0 /\ py'.node_sets = 0
                /\ py'.engine_blocks = {} /\ py'.engine_nodesets = {}
       /\ PyStep("reset_blocks")
             => /\ py'.blocks = 0
                /\ py'.engine_blocks = {}
                /\ py'.node_sets = py.node_sets
                /\ py'.engine_nodesets = py.engine_nodesets
       /\ (py.op = "reset" /\ PyStep("add_element_type") /\ py'.raised # "TypeError")
             => py'.raised = "none" /\ py'.engine_blocks = {1} /\ py'.blocks = 1
       /\ (py.op = "reset" /\ PyStep("add_node_set") /\ py'.arg = "bc_valid"
           /\ py'.raised # "TypeError")
             => py'.raised = "none" /\ py'.engine_nodesets = {1} /\ py'.node_sets = 1
      ]_vars

NodeIdsLeaveNodeSets ==
    [][PyStep("get_node_ids") => py'.engine_nodesets = py.engine_nodesets]_vars

====
